---------------------------- MODULE Spec2Model ----------------------------
(***************************************************************************)
(* A model of the MASSBUS server (MBS): the TM78 bit fiddler, the tape and *)
(* disk command handlers, the per-bus service thread and the operator      *)
(* interface that shares the bus with it, and process shutdown.            *)
(*                                                                         *)
(* 36-bit PDP-10 words are kept as a pair of 18-bit halves [lh, rh], since *)
(* the model checker's integers are 32 bits wide; every shift and mask of  *)
(* the source is carried out on that pair, bit for bit.                    *)
(***************************************************************************)
EXTENDS Integers, Sequences, FiniteSets, TLC

VARIABLES
  \* ---- bit fiddler harness (CTapeDrive::Fiddle8to18 / Fiddle18to8) ----
  tFormat,      \* bFormat: the assembly format the harness hands the fiddlers
  tReverse,     \* fReverse: the direction handed to Fiddle8to18
  tLength,      \* cbIn: the length of the tape record in m_abBuffer
  abIn,         \* m_abBuffer: the record followed by MAXSKIP bytes of slack
  alOut,        \* result of Fiddle8to18: [hw, fault]
  abOut,        \* result of Fiddle18to8: [bytes, fault]
  fpc           \* harness position: "in", "fiddled", "back"

VARIABLES
  \* ---- the drives and their handlers ----
  unit,         \* bus -> the drive that is unit 0 of the bus (m_apUnits[0])
  last,         \* the host command dispatched last and the drive before it
  steps         \* operator and host commands run so far

VARIABLES
  \* ---- buses, service threads, operator and shutdown ----
  m_buses,      \* CMBAs: the buses created, in creation order
  upeOffline,   \* bus -> its bridge is an offline (virtual) one
  fifo,         \* bus -> descriptors waiting in the bridge's command FIFO
  tpc,          \* bus -> position of the service thread in CommandLoop
  cmd,          \* bus -> CommandLoop's local cmd
  m_UIlock,     \* bus -> owner of the gate: "free", "thread" or "ui"
  exitReq,      \* bus -> the thread's exit flag
  mpc,          \* position of the main thread (operator, then shutdown)
  ucmd,         \* the operator command being executed
  it,           \* ~CMBAs: index of the bus being destroyed
  nOps,         \* operator commands issued so far
  nCmds,        \* descriptors the hosts have issued so far
  readLog,      \* bus -> valid descriptors read from the command FIFO
  dispLog,      \* bus -> words CMBA::DoCommand has been called with
  afterExit,    \* bus -> WaitCommand returns and dispatches since the exit flag
  shutLog       \* the shutdown steps taken, in order

VARIABLES
  \* ---- calls of the functions that keep no state of their own ----
  geo           \* a disk address on its way through CHStoLBA and LBAtoCHS

VARIABLES
  \* ---- one disk's image file and the data FIFO of its bridge ----
  sec           \* the sectors of the image and the transfer made last on them

VARIABLES
  \* ---- one call of the bridge's data transfer functions ----
  xfer          \* the call under way, its loop counters and the window accesses

VARIABLES
  \* ---- one bus's unit slots and the window of its bridge ----
  m_apUnits,        \* unit number -> a drive is connected in that slot
  lDrivesAttached,  \* the drive map written last to the bridge
  alRegisters,      \* unit number -> the register file of that unit
  bridgeOp          \* the call made last on the slots or the window

fiddleVars == <<tFormat, tReverse, tLength, abIn, alOut, abOut, fpc>>

bridgeVars == <<m_apUnits, lDrivesAttached, alRegisters, bridgeOp>>

pureVars == <<geo, sec, xfer, bridgeVars>>

driveVars == <<unit, last, steps>>

busVars == <<m_buses, upeOffline, fifo, tpc, cmd, m_UIlock, exitReq>>

mainVars == <<mpc, ucmd, it, nOps, nCmds>>

histVars == <<readLog, dispLog, afterExit, shutLog>>

vars == <<geo, sec, xfer, m_apUnits, lDrivesAttached, alRegisters, bridgeOp,
          tFormat, tReverse, tLength, abIn, alOut, abOut, fpc,
          unit, last, steps,
          m_buses, upeOffline, fifo, tpc, cmd, m_UIlock, exitReq,
          mpc, ucmd, it, nOps, nCmds,
          readLog, dispLog, afterExit, shutLog>>

-----------------------------------------------------------------------------
(* Bounds of the model *)

\* longest tape record the fiddler harness draws (stands in for MAXRECLEN)
MaxLen == 10

\* sectors in the disk image file
DiskImageSectors == 2

\* operator and host commands in a run of SpecDrive
MaxSteps == 4

\* operator commands and host commands in a run of the threads
MaxOps == 3

MaxCmds == 2

\* calls made on the register window
MaxWindowOps == 2

\* pairs of halfwords in a sector of the sector harness (stands in for
\* SECTOR_SIZE/2), and the transfers in one of its runs
SectorPairs == 1

MaxSectorOps == 3

\* the byte values records are filled with: 0x5A and 0xA5 put a 0 and a 1 in
\* every bit position of every byte
ByteVals == {90, 165}

-----------------------------------------------------------------------------
(* Program constants *)

TMAM_10_COMPATIBLE == 2
TMAM_10_CORE_DUMP == 3
MAXSKIP == 10
MAXUNIT == 8

\* what an unsigned 32 bit loop counter holds once "cbIn -= g" has taken it
\* below zero: a value of at least 2^32-4, which no number of further
\* subtractions the buffers can hold brings back to zero
Wrapped == -1

-----------------------------------------------------------------------------
(* 36 bit words and 18 bit halfwords (MBS.hpp) *)

HW == 262144           \* 2^18, one more than the mask 0777777

MASK18(x) == x % HW

RH36(w) == w.rh

LH36(w) == w.lh

MK36(h, l) == [lh |-> h % HW, rh |-> l % HW]

\* (b0<<28) | (b1<<20) | (b2<<12) | (b3<<4) | b4 : b2 straddles the halves,
\* its top two bits are bits 19..18 and its low six bits are bits 17..12
Pack36(b0, b1, b2, b3, b4) ==
  [lh |-> b0 * 1024 + b1 * 4 + (b2 \div 64),
   rh |-> (b2 % 64) * 4096 + b3 * 16 + b4]

\* (w36 >> s) & 0xFF for the four shifts the fiddler uses, and w36 & 0x0F
Byte28(w) == (w.lh \div 1024) % 256
Byte20(w) == (w.lh \div 4) % 256
\* a shift of the third byte that loses the two bits held in the left half
Byte12LowOnly(w) == (w.rh \div 4096) % 256
Byte12(w) == ((w.lh % 4) * 64 + (w.rh \div 4096)) % 256
Byte4(w)  == (w.rh \div 16) % 256
\* a fifth byte masked with 0xFF where the source masks with 0x0F
Nibble0WideMask(w) == w.rh % 256
Nibble0(w) == w.rh % 16

-----------------------------------------------------------------------------
(* CTapeDrive::Fiddle8to18 *)

GroupSize(fmt) == IF fmt = TMAM_10_CORE_DUMP THEN 5 ELSE 4

\* the length the loop counts down from
RoundedCount(fmt, cb) ==
  IF fmt = TMAM_10_CORE_DUMP THEN ((cb * 5) + 4) \div 5
  ELSE ((cb + 3) \div 4) * 4

\* the index the walk starts at
StartIndex(fmt, cb, rev) ==
  IF ~rev THEN 0
  ELSE IF fmt = TMAM_10_CORE_DUMP THEN ((cb + 4) \div 5) * 5
  ELSE ((cb + 3) \div 4) * 4

\* the 36 bit word assembled from the group at index n
Assemble(fmt, buf, n) ==
  IF fmt = TMAM_10_CORE_DUMP
    THEN Pack36(buf[n], buf[n+1], buf[n+2], buf[n+3], buf[n+4] % 16)
    ELSE Pack36(buf[n], buf[n+1], buf[n+2], buf[n+3], 0)

\* the two halfwords one iteration stores
EmitPair(w, rev) ==
  IF rev THEN <<RH36(w), LH36(w)>> ELSE <<LH36(w), RH36(w)>>

\* "cbIn -= g" on a uint32_t
CountDown(rem, g) ==
  IF rem = Wrapped THEN Wrapped
  ELSE IF rem >= g THEN rem - g ELSE Wrapped

\* the for loop: n is the group index, rem the loop counter, out the halfwords
\* stored so far.  The byte buffer holds bufLen bytes and the halfword buffer
\* outCap halfwords; a group read or a store outside them is a fault.  top is
\* the end of the highest group read: one more than the highest index of
\* abIn touched, and beyond the buffer when a read left it.
RECURSIVE FiddleLoop(_, _, _, _, _, _, _, _)
FiddleLoop(fmt, buf, bufLen, outCap, rev, n, rem, out) ==
  IF rem = 0 THEN [hw |-> out, fault |-> FALSE, top |-> 0]
  ELSE IF n < 0 \/ n + GroupSize(fmt) > bufLen
    THEN [hw |-> out, fault |-> TRUE, top |-> bufLen + 1]
  ELSE IF Len(out) + 2 > outCap
    THEN [hw |-> out, fault |-> TRUE, top |-> n + GroupSize(fmt)]
  ELSE LET r == FiddleLoop(fmt, buf, bufLen, outCap, rev,
                           IF rev THEN n - GroupSize(fmt) ELSE n + GroupSize(fmt),
                           CountDown(rem, GroupSize(fmt)),
                           out \o EmitPair(Assemble(fmt, buf, n), rev))
       IN  [r EXCEPT !.top = IF @ > n + GroupSize(fmt) THEN @ ELSE n + GroupSize(fmt)]

Fiddle8to18(fmt, buf, bufLen, outCap, cb, rev) ==
  IF fmt \in {TMAM_10_CORE_DUMP, TMAM_10_COMPATIBLE}
    THEN FiddleLoop(fmt, buf, bufLen, outCap, rev,
                    StartIndex(fmt, cb, rev), RoundedCount(fmt, cb), <<>>)
    ELSE [hw |-> <<>>, fault |-> FALSE, top |-> 0]

-----------------------------------------------------------------------------
(* CTapeDrive::Fiddle18to8 *)

\* the bytes one pair of halfwords unpacks to
Unpack(fmt, w) ==
  IF fmt = TMAM_10_CORE_DUMP
    THEN <<Byte28(w), Byte20(w), Byte12(w), Byte4(w), Nibble0(w)>>
    ELSE <<Byte28(w), Byte20(w), Byte12(w), Byte4(w)>>

RECURSIVE UnfiddleLoop(_, _, _, _, _)
UnfiddleLoop(fmt, hw, n, rem, out) ==
  IF rem = 0 THEN out
  ELSE UnfiddleLoop(fmt, hw, n + 2, rem - 2,
                    out \o Unpack(fmt, MK36(hw[n + 1], hw[n + 2])))

\* assert((clIn & 1) == 0) fails on an odd count: fault
Fiddle18to8(fmt, hw, clIn) ==
  IF clIn % 2 # 0 THEN [bytes |-> <<>>, fault |-> TRUE]
  ELSE IF fmt \in {TMAM_10_CORE_DUMP, TMAM_10_COMPATIBLE}
    THEN [bytes |-> UnfiddleLoop(fmt, hw, 0, clIn, <<>>), fault |-> FALSE]
    ELSE [bytes |-> <<>>, fault |-> FALSE]

\* m_abBuffer[MAXRECLEN+MAXSKIP] and m_alBuffer[MAXRECLEN]
ByteBufferLen == MaxLen + MAXSKIP
HalfwordBufferLen == MaxLen

-----------------------------------------------------------------------------
(* MASSBUS registers, function codes and interrupt codes (MASSBUS.h) *)

TMDCR == 0
TMDIR == 1
TMTCR == 2
TMBCR == 5
TMDT == 6
TMUS == 7
TMSN == 8
TMMIR == 11
TMMCR0 == 12
TMHCR == 17

TMCMD_M_MASK == 63
TMCMD_NOP == 3
TMCMD_UNLOAD == 5
TMCMD_REWIND == 7
TMCMD_SENSE == 9
TMCMD_DSE == 11
TMCMD_WTM_PE == 13
TMCMD_WTM_GCR == 15
TMCMD_SP_FWD_REC == 17
TMCMD_SP_REV_REC == 19
TMCMD_SP_FWD_FILE == 21
TMCMD_SP_REV_FILE == 23
TMCMD_ERG_PE == 29
TMCMD_ERG_GCR == 31
TMCMD_WRT_CK_FWD == 41
TMCMD_WRT_PE == 49
TMCMD_WRT_GCR == 51
TMCMD_RD_FWD == 57
TMCMD_RD_EXSNS == 59
TMCMD_RD_REV == 63
TMCMD_DVA == 2048

TMDIR_M_FC == 64512
TMDIR_DPR == 256
TMDIR_M_IC == 63
TMMIR_M_FC == 64512
TMMIR_M_UNIT == 768
TMMIR_M_IC == 63

TMIC_DONE == 1
TMIC_TAPE_MARK == 2
TMIC_BOT == 3
TMIC_EOT == 4
TMIC_FILE_PROTECT == 8
TMIC_NOT_AVAIL == 10
TMIC_OFFLINE == 11
TMIC_ONLINE == 15
TMIC_LONG_RECORD == 16
TMIC_SHORT_RECORD == 17
TMIC_UNREADABLE == 20
TMIC_BAD_TAPE == 23
TMIC_TM_FAULT_A == 24
TMFC_NONE == 0

TMDT_TM78 == 50176
TMDT_TU78 == 65

TMUS_RDY == 32768
TMUS_PRES == 16384
TMUS_ONL == 8192
TMUS_PE == 2048
TMUS_BOT == 1024
TMUS_EOT == 512
TMUS_FPT == 256
TMUS_AVAIL == 128

TMTCR_M_FORMAT == 28672
TMTCR_M_SKIP_COUNT == 3840
TMTCR_M_REC_COUNT == 252
TMTCR_M_CMD_ADDR == 3

TMES_LENGTH == 30

-----------------------------------------------------------------------------
(* Bit operations on 16 bit register values *)

RECURSIVE BitAnd(_, _)
BitAnd(a, b) ==
  IF a = 0 \/ b = 0 THEN 0
  ELSE (a % 2) * (b % 2) + 2 * BitAnd(a \div 2, b \div 2)

BitOr(a, b) == a + b - BitAnd(a, b)

\* a & ~m on a 16 bit word
BitClear(a, m) == a - BitAnd(a, m)

BitXor(a, b) == a + b - 2 * BitAnd(a, b)

LOBYTE(w) == w % 256
HIBYTE(w) == (w \div 256) % 256
MKWORD(h, l) == (h % 256) * 256 + (l % 256)
LOWORD(l) == l % 65536

\* the longword of two 16 bit words; the source builds it with h = 0 only
MKLONG(h, l) == (h % 65536) * 65536 + (l % 65536)

MK_TMDIR(ic, fc) == BitOr(BitAnd(fc * 1024, TMDIR_M_FC), BitAnd(ic, TMDIR_M_IC))

MK_TMMIR(ic, u, fc) ==
  BitOr(BitOr(BitAnd(fc * 1024, TMMIR_M_FC), BitAnd(ic, TMMIR_M_IC)),
        BitAnd(u * 256, TMMIR_M_UNIT))

-----------------------------------------------------------------------------
(* The command FIFO longword (DECUPE.hpp).  Bit 31, the validity bit, is     *)
(* kept apart from the low 31 bits: [v, w] stands for v * 2^31 + w.          *)

END_OF_BLOCK == 16777216      \* 0x01000000

IsCommandValid(c) == c.v = 1
IsEndofBlock(c) == (c.w \div END_OF_BLOCK) % 2 = 1
ExtractCommand(c) == c.w % 262144
ExtractUnit(c) == (c.w \div 65536) % 8
ExtractRegister(c) == (c.w \div 524288) % 32

\* the bridge's descriptor for a host write of wValue to nRegister of nUnit
MkDescriptor(nUnit, nRegister, wValue) ==
  [v |-> 1, w |-> nRegister * 524288 + nUnit * 65536 + wValue]

\* CDECUPE::TIMEOUT and CDECUPE::ERROR
TIMEOUT == [v |-> 0, w |-> 0]
ERROR == [v |-> 0, w |-> 268435455]

-----------------------------------------------------------------------------
(* A drive and the bridge it talks to.                                       *)
(*                                                                           *)
(* A drive d is a record: exists (the unit is connected), attached (the      *)
(* image file is open), m_fOnline, m_fReadOnly, imageRO (the image file was  *)
(* opened read only), image and pos (the image file and the position in it), *)
(* regs (the bridge's register file for the unit), crashed (an assertion     *)
(* failed or a buffer was overrun: the process is gone) and trace, the       *)
(* bridge accesses and image file calls of the handler that ran last.        *)

Ev(op, a, b) == [op |-> op, a |-> a, b |-> b]

Log(d, e) == [d EXCEPT !.trace = Append(@, e)]

\* an assertion fails or a buffer is overrun: the process is gone
Crash(d, why) == [Log(d, Ev(why, 0, 0)) EXCEPT !.crashed = TRUE]

\* CDECUPE::ReadMBR / WriteMBR / ClearBitMBR / SetBitMBR
ReadMBR(d, r) == LOWORD(d.regs[r])

WriteMBR(d, r, v) == Log([d EXCEPT !.regs[r] = v], Ev("MBR", r, v))

ClearBitMBR(d, r, m) ==
  LET v == BitClear(d.regs[r], m)
  IN  Log([d EXCEPT !.regs[r] = v], Ev("MBR", r, v))

SetBitMBR(d, r, m) ==
  LET v == BitOr(d.regs[r], m)
  IN  Log([d EXCEPT !.regs[r] = v], Ev("MBR", r, v))

\* a toggle that inverts the whole word
ToggleBitMBRWholeWord(d, r, m) ==
  LET v == BitXor(d.regs[r], 65535)
  IN  Log([d EXCEPT !.regs[r] = v], Ev("MBR", r, v))

\* CDECUPE::ToggleBitMBR
ToggleBitMBR(d, r, m) ==
  LET v == BitXor(d.regs[r], m)
  IN  Log([d EXCEPT !.regs[r] = v], Ev("MBR", r, v))

\* an empty transfer that never carries the exception flag
EmptyTransferUnmarked(d, fException) ==
  Log(Log(d, Ev("SEND", 0, 0)), Ev("FIFOWR", 1, 0))

\* CDECUPE::EmptyTransfer: lSendCount, then one word into the data FIFO
EmptyTransfer(d, fException) ==
  Log(Log(d, Ev("SEND", 0, IF fException THEN 1 ELSE 0)), Ev("FIFOWR", 1, 0))

\* CDECUPE::WriteData.  On a tape bridge: lSendCount with the exception bit,
\* then the words, unless the FIFO stays almost full and the transfer times
\* out before its first word.  On a disk bridge: just the words.
WriteData(d, clData, fException, env) ==
  IF clData = 0 THEN [Log(d, Ev("ASSERT", 0, 0)) EXCEPT !.crashed = TRUE]
  ELSE IF d.isTape
    THEN LET d1 == Log(d, Ev("SEND", clData, IF fException THEN 1 ELSE 0))
         IN  IF env.fifoTimeout THEN d1 ELSE Log(d1, Ev("FIFOWR", clData, 0))
    ELSE Log(d, Ev("FIFOWR", clData, 0))

\* CDECUPE::ReadData: [ok, d].  On a tape bridge lSendCount is written first;
\* then the words are read from the data FIFO, or the read times out.  (The
\* bridge is an online one: an offline bridge delivers no command.)
ReadData(d, clData, env) ==
  IF clData = 0
    THEN [ok |-> FALSE, d |-> [Log(d, Ev("ASSERT", 0, 0)) EXCEPT !.crashed = TRUE]]
    ELSE LET d1 == IF d.isTape THEN Log(d, Ev("SEND", clData, 0)) ELSE d
         IN  IF env.fifoTimeout THEN [ok |-> FALSE, d |-> d1]
             ELSE [ok |-> TRUE, d |-> Log(d1, Ev("FIFORD", clData, 0))]

\* CBaseDrive
IsAttached(d) == d.attached
IsOnline(d) == IsAttached(d) /\ d.m_fOnline
IsReadOnly(d) == d.m_fReadOnly

-----------------------------------------------------------------------------
(* The tape image file (CTapeImageFile, from the UPE library).  A tape image *)
(* is a sequence of items, 0 for a tape mark and n > 0 for a data record of  *)
(* n bytes; pos is the number of items behind the head.  A call returns      *)
(* [ret, d]: ret.kind is "REC" for a positive return value (ret.len), or     *)
(* the name of the metadata code returned.                                    *)

Ret(kind, len) == [kind |-> kind, len |-> len]

IsBOT(d) == d.pos = 0
IsEOT(d) == d.pos = Len(d.image)

\* the trace keeps the length read and what the call returned: 0 for a
\* record, 1 for TAPEMARK, 2 for EOTBOT, 3 for any other code
ReadForwardRecord(d, env) ==
  IF env.ioError THEN [ret |-> Ret("BADTAPE", 0), d |-> Log(d, Ev("ReadForwardRecord", 0, 3))]
  ELSE IF IsEOT(d) THEN [ret |-> Ret("EOTBOT", 0), d |-> Log(d, Ev("ReadForwardRecord", 0, 2))]
  ELSE LET item == d.image[d.pos + 1]
           d1 == Log([d EXCEPT !.pos = @ + 1],
                     Ev("ReadForwardRecord", item, IF item = 0 THEN 1 ELSE 0))
       IN  IF item = 0 THEN [ret |-> Ret("TAPEMARK", 0), d |-> d1]
           ELSE [ret |-> Ret("REC", item), d |-> d1]

\* the trace keeps what a spacing call returned, coded as for a read
SpaceForwardRecord(d, env) ==
  IF env.ioError THEN [ret |-> Ret("BADTAPE", 0), d |-> Log(d, Ev("SpaceRecord", 0, 3))]
  ELSE IF IsEOT(d) THEN [ret |-> Ret("EOTBOT", 0), d |-> Log(d, Ev("SpaceRecord", 0, 2))]
  ELSE LET item == d.image[d.pos + 1]
           d1 == Log([d EXCEPT !.pos = @ + 1],
                     Ev("SpaceRecord", item, IF item = 0 THEN 1 ELSE 0))
       IN  IF item = 0 THEN [ret |-> Ret("TAPEMARK", 0), d |-> d1]
           ELSE [ret |-> Ret("REC", item), d |-> d1]

SpaceReverseRecord(d, env) ==
  IF env.ioError THEN [ret |-> Ret("BADTAPE", 0), d |-> Log(d, Ev("SpaceRecord", 0, 3))]
  ELSE IF IsBOT(d) THEN [ret |-> Ret("EOTBOT", 0), d |-> Log(d, Ev("SpaceRecord", 0, 2))]
  ELSE LET item == d.image[d.pos]
           d1 == Log([d EXCEPT !.pos = @ - 1],
                     Ev("SpaceRecord", item, IF item = 0 THEN 1 ELSE 0))
       IN  IF item = 0 THEN [ret |-> Ret("TAPEMARK", 0), d |-> d1]
           ELSE [ret |-> Ret("REC", item), d |-> d1]

\* space over records until a tape mark has been passed
RECURSIVE SpaceForwardFile(_, _)
SpaceForwardFile(d, env) ==
  LET r == SpaceForwardRecord(d, env)
  IN  IF r.ret.kind = "REC" THEN SpaceForwardFile(r.d, env)
      ELSE IF r.ret.kind = "TAPEMARK" THEN [ret |-> Ret("REC", 1), d |-> r.d]
      ELSE r

RECURSIVE SpaceReverseFile(_, _)
SpaceReverseFile(d, env) ==
  LET r == SpaceReverseRecord(d, env)
  IN  IF r.ret.kind = "REC" THEN SpaceReverseFile(r.d, env)
      ELSE IF r.ret.kind = "TAPEMARK" THEN [ret |-> Ret("REC", 1), d |-> r.d]
      ELSE r

ImageRewind(d) == [d EXCEPT !.pos = 0]

\* what is behind the head is kept, what is ahead of it is lost; a call that
\* fails leaves the image as it is.  The trace keeps what the call returned:
\* 0 for success, 1 for failure.
ImageTruncate(d, env) ==
  IF env.ioError THEN Log(d, Ev("Truncate", 0, 1))
  ELSE Log([d EXCEPT !.image = SubSeq(@, 1, d.pos)], Ev("Truncate", 0, 0))

ImageWriteRecord(d, cbRecord, env) ==
  IF env.ioError THEN Log(d, Ev("WriteRecord", cbRecord, 1))
  ELSE Log([d EXCEPT !.image = Append(SubSeq(@, 1, d.pos), cbRecord), !.pos = @ + 1],
           Ev("WriteRecord", cbRecord, 0))

\* the value WriteMark returns is the image library's to choose; DoWriteMark
\* takes it for an error flag
ImageWriteMark(d, env) ==
  [ret |-> env.markRet,
   d |-> Log([d EXCEPT !.image = Append(SubSeq(@, 1, d.pos), 0), !.pos = @ + 1],
             Ev("WriteMark", 0, IF env.markRet THEN 1 ELSE 0))]

-----------------------------------------------------------------------------
(* CTapeDrive: register updates *)

ClearMotionGO(d, nSlave) == ClearBitMBR(d, TMMCR0 + nSlave, 1)

SetMotionInt(d, nCode, nSlave, nFailure) ==
  WriteMBR(d, TMMIR, MK_TMMIR(nCode, nSlave, nFailure))

SetDataInt(d, nCode, nSlave, nFailure) ==
  WriteMBR(d, TMDIR,
           BitOr(MK_TMDIR(nCode, nFailure), IF nSlave = 0 THEN TMDIR_DPR ELSE 0))

SetMotionCount(d, nCount, nSlave) ==
  WriteMBR(d, TMMCR0 + nSlave,
           MKWORD(nCount, LOBYTE(ReadMBR(d, TMMCR0 + nSlave))))

ToBCD(n) ==
  ((((n \div 1000) % 10) * 16 + ((n \div 100) % 10)) * 16
     + ((n \div 10) % 10)) * 16 + (n % 10)

UnitStatus(d) ==
  TMUS_AVAIL + TMUS_PRES + TMUS_PE
    + (IF IsOnline(d)
         THEN TMUS_ONL + TMUS_RDY
                + (IF IsBOT(d) THEN TMUS_BOT ELSE 0)
                + (IF IsEOT(d) THEN TMUS_EOT ELSE 0)
                + (IF d.imageRO THEN TMUS_FPT ELSE 0)
         ELSE 0)

\* a SetStatus that reports the transport of slave 0 for every slave
SetStatusOfSlave0(d, nSlave) ==
  WriteMBR(WriteMBR(WriteMBR(d, TMDT, BitOr(TMDT_TM78, TMDT_TU78)),
                    TMUS, UnitStatus(d)),
           TMSN, ToBCD(d.m_nSerial))
SetStatus(d, nSlave) ==
  LET d1 == WriteMBR(d, TMDT, BitOr(TMDT_TM78, TMDT_TU78))
  IN  IF nSlave = 0
        THEN WriteMBR(WriteMBR(d1, TMUS, UnitStatus(d)), TMSN, ToBCD(d.m_nSerial))
        ELSE WriteMBR(WriteMBR(d1, TMUS, 0), TMSN, 0)

TapeClear(d) ==
  LET d1 == WriteMBR(d, TMDCR, TMCMD_DVA)
      d2 == WriteMBR(d1, TMDIR, TMDIR_DPR)
      d3 == WriteMBR(d2, TMMCR0 + 0, 0)
      d4 == WriteMBR(d3, TMMCR0 + 1, 0)
      d5 == WriteMBR(d4, TMMCR0 + 2, 0)
      d6 == WriteMBR(d5, TMMCR0 + 3, 0)
      d7 == WriteMBR(d6, TMMIR, 0)
      d8 == WriteMBR(d7, TMDT, BitOr(TMDT_TM78, TMDT_TU78))
      d9 == WriteMBR(d8, TMUS, 0)
  IN  WriteMBR(d9, TMSN, 0)

TapeGoOnline(d) ==
  IF ~IsAttached(d) THEN Crash(d, "ASSERT")
  ELSE IF IsOnline(d) THEN d
  ELSE SetMotionInt([d EXCEPT !.m_fOnline = TRUE], TMIC_ONLINE, 0, TMFC_NONE)

TapeGoOffline(d) ==
  IF ~IsAttached(d) THEN Crash(d, "ASSERT")
  ELSE IF ~IsOnline(d) THEN d
  ELSE Log([d EXCEPT !.m_fOnline = FALSE], Ev("GoOffline", 0, 0))

\* CBaseDrive::Detach, with CTapeDrive::GoOffline as the GoOffline it calls
TapeDetach(d) ==
  IF IsAttached(d)
    THEN Log([(IF IsOnline(d) THEN TapeGoOffline(d) ELSE d) EXCEPT !.attached = FALSE],
             Ev("Close", 0, 0))
    ELSE d

-----------------------------------------------------------------------------
(* CTapeDrive: preflight checks.  Each returns [ok, d].                      *)

\* a check that takes a transport that is attached for one that is online
CheckOnlineWhenAttached(d, fMotion) ==
  IF IsAttached(d) THEN [ok |-> TRUE, d |-> d]
  ELSE IF fMotion
    THEN [ok |-> FALSE,
          d |-> SetMotionInt(ClearMotionGO(d, 0), TMIC_OFFLINE, 0, TMFC_NONE)]
    ELSE [ok |-> FALSE,
          d |-> EmptyTransfer(SetDataInt(d, TMIC_OFFLINE, 0, TMFC_NONE), TRUE)]
CheckOnline(d, fMotion) ==
  IF IsOnline(d) THEN [ok |-> TRUE, d |-> d]
  ELSE IF fMotion
    THEN [ok |-> FALSE,
          d |-> SetMotionInt(ClearMotionGO(d, 0), TMIC_OFFLINE, 0, TMFC_NONE)]
    ELSE [ok |-> FALSE,
          d |-> EmptyTransfer(SetDataInt(d, TMIC_OFFLINE, 0, TMFC_NONE), TRUE)]

\* a check that lets a write through to a write protected tape
CheckWritableIgnoringProtect(d, fMotion) == CheckOnline(d, fMotion)
CheckWritable(d, fMotion) ==
  LET c == CheckOnline(d, fMotion)
  IN  IF ~c.ok THEN c
      ELSE IF ~IsReadOnly(d) THEN [ok |-> TRUE, d |-> d]
      ELSE IF fMotion
        THEN [ok |-> FALSE,
              d |-> SetMotionInt(ClearMotionGO(d, 0), TMIC_FILE_PROTECT, 0, TMFC_NONE)]
        ELSE [ok |-> FALSE,
              d |-> EmptyTransfer(SetDataInt(d, TMIC_FILE_PROTECT, 0, TMFC_NONE), TRUE)]

-----------------------------------------------------------------------------
(* CTapeDrive: motion commands *)

\* a completion that interrupts the host before the command register is done
MotionDoneInterruptFirst(d) ==
  ClearMotionGO(SetMotionCount(SetMotionInt(d, TMIC_DONE, 0, TMFC_NONE), 0, 0), 0)

MotionDone(d) ==
  SetMotionInt(ClearMotionGO(SetMotionCount(d, 0, 0), 0), TMIC_DONE, 0, TMFC_NONE)

DoReadSense(d, nSlave) ==
  SetMotionInt(ClearMotionGO(SetStatus(d, nSlave), nSlave), TMIC_DONE, nSlave, 0)

TapeDoRewind(d) ==
  LET c == CheckOnline(d, TRUE)
  IN  IF ~c.ok THEN c.d ELSE MotionDone(ImageRewind(d))

ManualRewind(d) ==
  LET fWasOnline == IsOnline(d)
      d1 == IF fWasOnline THEN TapeGoOffline(d) ELSE d
      d2 == ImageRewind(d1)
  IN  IF fWasOnline THEN TapeGoOnline(d2) ELSE d2

\* an UNLOAD that leaves the image attached
DoUnloadStayingAttached(d) ==
  LET c == CheckOnline(d, TRUE)
  IN  IF ~c.ok THEN c.d ELSE TapeGoOffline(MotionDone(d))

DoUnload(d) ==
  LET c == CheckOnline(d, TRUE)
  IN  IF ~c.ok THEN c.d ELSE TapeDetach(TapeGoOffline(MotionDone(d)))

SpaceOnce(d, fReverse, fFiles, env) ==
  IF fFiles
    THEN (IF fReverse THEN SpaceReverseFile(d, env) ELSE SpaceForwardFile(d, env))
    ELSE (IF fReverse THEN SpaceReverseRecord(d, env) ELSE SpaceForwardRecord(d, env))

\* the do ... while loop of DoSpace: [ret, d, n]
RECURSIVE SpaceLoop(_, _, _, _, _)
SpaceLoop(d, nCount, fReverse, fFiles, env) ==
  LET r == SpaceOnce(d, fReverse, fFiles, env)
      n == IF r.ret.kind = "REC" /\ nCount > 0 THEN nCount - 1 ELSE nCount
  IN  IF r.ret.kind = "REC" /\ n > 0
        THEN SpaceLoop(r.d, n, fReverse, fFiles, env)
        ELSE [ret |-> r.ret, d |-> r.d, n |-> n]

\* a DoSpace that takes the tape mark it stops at for a completed skip
DoSpaceCountingMark(d, nCount, fReverse, fFiles, env) ==
  LET c == CheckOnline(d, TRUE)
  IN  IF ~c.ok THEN c.d
      ELSE LET l == SpaceLoop(d, nCount, fReverse, fFiles, env)
               n == IF l.ret.kind = "TAPEMARK" /\ l.n > 0 THEN l.n - 1 ELSE l.n
               d1 == ClearMotionGO(SetMotionCount(l.d, n, 0), 0)
           IN  IF l.ret.kind = "BADTAPE"
                 THEN SetMotionInt(d1, TMIC_BAD_TAPE, 0, TMFC_NONE)
               ELSE IF l.ret.kind = "TAPEMARK"
                 THEN SetMotionInt(d1, TMIC_TAPE_MARK, 0, TMFC_NONE)
               ELSE IF l.ret.kind = "EOTBOT"
                 THEN SetMotionInt(d1, IF fReverse THEN TMIC_BOT ELSE TMIC_EOT,
                                   0, TMFC_NONE)
               ELSE SetMotionInt(d1, TMIC_DONE, 0, TMFC_NONE)
DoSpace(d, nCount, fReverse, fFiles, env) ==
  LET c == CheckOnline(d, TRUE)
  IN  IF ~c.ok THEN c.d
      ELSE LET l == SpaceLoop(d, nCount, fReverse, fFiles, env)
               d1 == ClearMotionGO(SetMotionCount(l.d, l.n, 0), 0)
           IN  IF l.ret.kind = "BADTAPE"
                 THEN SetMotionInt(d1, TMIC_BAD_TAPE, 0, TMFC_NONE)
               ELSE IF l.ret.kind = "TAPEMARK"
                 THEN SetMotionInt(d1, TMIC_TAPE_MARK, 0, TMFC_NONE)
               ELSE IF l.ret.kind = "EOTBOT"
                 THEN SetMotionInt(d1, IF fReverse THEN TMIC_BOT ELSE TMIC_EOT,
                                   0, TMFC_NONE)
               ELSE SetMotionInt(d1, TMIC_DONE, 0, TMFC_NONE)

\* the do ... while loop of DoWriteMark: [fError, d, n]
RECURSIVE WriteMarkLoop(_, _, _)
WriteMarkLoop(d, nCount, env) ==
  LET r == ImageWriteMark(d, env)
      n == IF ~r.ret /\ nCount > 0 THEN nCount - 1 ELSE nCount
  IN  IF n > 0 /\ ~r.ret THEN WriteMarkLoop(r.d, n, env)
      ELSE [fError |-> r.ret, d |-> r.d, n |-> n]

DoWriteMark(d, nCount, env) ==
  LET c == CheckWritable(d, TRUE)
  IN  IF ~c.ok THEN c.d
      ELSE LET l == WriteMarkLoop(d, nCount, env)
           IN  SetMotionInt(ClearMotionGO(SetMotionCount(l.d, l.n, 0), 0),
                            IF l.fError THEN TMIC_BAD_TAPE ELSE TMIC_DONE,
                            0, TMFC_NONE)

DoWriteGap(d, nCount, env) ==
  LET c == CheckWritable(d, TRUE)
  IN  IF ~c.ok THEN c.d ELSE MotionDone(ImageTruncate(d, env))

DoEraseTape(d, env) == DoWriteGap(d, 1, env)

\* a handler for the other slaves that leaves GO set
MotionOtherSlaveKeepingGO(d, nSlave, bFunction) ==
  IF bFunction = TMCMD_SENSE THEN DoReadSense(d, nSlave)
  ELSE SetMotionInt(d, TMIC_NOT_AVAIL, nSlave, 0)
MotionOtherSlave(d, nSlave, bFunction) ==
  IF bFunction = TMCMD_SENSE THEN DoReadSense(d, nSlave)
  ELSE SetMotionInt(ClearMotionGO(d, nSlave), TMIC_NOT_AVAIL, nSlave, 0)

DoMotionCommand(d, nSlave, bFunction, bCount0, env) ==
  IF nSlave # 0 THEN MotionOtherSlave(d, nSlave, bFunction)
  ELSE LET bCount == IF bCount0 = 0 THEN 1 ELSE bCount0
       IN  CASE bFunction = TMCMD_SENSE -> DoReadSense(d, 0)
             [] bFunction = TMCMD_WTM_PE -> DoWriteMark(d, bCount, env)
             [] bFunction = TMCMD_WTM_GCR -> DoWriteMark(d, bCount, env)
             [] bFunction = TMCMD_SP_FWD_REC -> DoSpace(d, bCount, FALSE, FALSE, env)
             [] bFunction = TMCMD_SP_REV_REC -> DoSpace(d, bCount, TRUE, FALSE, env)
             [] bFunction = TMCMD_SP_FWD_FILE -> DoSpace(d, bCount, FALSE, TRUE, env)
             [] bFunction = TMCMD_SP_REV_FILE -> DoSpace(d, bCount, TRUE, TRUE, env)
             [] bFunction = TMCMD_REWIND -> TapeDoRewind(d)
             [] bFunction = TMCMD_UNLOAD -> DoUnload(d)
             [] bFunction = TMCMD_ERG_PE -> DoWriteGap(d, bCount, env)
             [] bFunction = TMCMD_ERG_GCR -> DoWriteGap(d, bCount, env)
             [] bFunction = TMCMD_DSE -> DoEraseTape(d, env)
             [] OTHER -> SetMotionInt(ClearMotionGO(d, 0), TMIC_TM_FAULT_A,
                                      0, TMFC_NONE)

-----------------------------------------------------------------------------
(* CTapeDrive: data transfer commands.  The data of a record is not kept,    *)
(* only its length: the fiddlers run on a buffer of zeros.                   *)

ZeroBytes == [i \in 0..(ByteBufferLen - 1) |-> 0]

ZeroHalfwords(n) == [i \in 1..n |-> 0]

DoReadExtendedSense(d, env) ==
  WriteData(SetDataInt(d, TMIC_DONE, 0, TMFC_NONE), TMES_LENGTH, FALSE, env)

\* the tail of DoRead once a record of cbRecord bytes has been read
ReadTransfer(d, cbRecord, fReverse, bFormat, lByteCount, env) ==
  LET d1 == ClearBitMBR(d, TMTCR, TMTCR_M_REC_COUNT)
      d2 == WriteMBR(d1, TMBCR, LOWORD(cbRecord))
      d3 == IF cbRecord < lByteCount
              THEN SetDataInt(d2, TMIC_SHORT_RECORD, 0, TMFC_NONE)
            ELSE IF cbRecord > lByteCount
              THEN SetDataInt(d2, TMIC_LONG_RECORD, 0, TMFC_NONE)
            ELSE SetDataInt(d2, TMIC_DONE, 0, TMFC_NONE)
      f == Fiddle8to18(bFormat, ZeroBytes, ByteBufferLen, HalfwordBufferLen,
                       cbRecord, fReverse)
  IN  IF f.fault THEN Crash(d3, "OVERRUN")
      ELSE WriteData(d3, Len(f.hw), cbRecord # lByteCount, env)

\* a DoRead that hands the data to the bridge before it sets TMDIR
DoReadDataFirst(d, fReverse, bFormat, lByteCount, env) ==
  LET r == ReadForwardRecord(d, env)
  IN  IF r.ret.kind = "REC"
        THEN SetDataInt(WriteData(r.d, 2, FALSE, env), TMIC_DONE, 0, TMFC_NONE)
        ELSE EmptyTransfer(SetDataInt(r.d, TMIC_EOT, 0, TMFC_NONE), TRUE)
DoRead(d, fReverse, bFormat, lByteCount, env) ==
  LET c == CheckOnline(d, FALSE)
  IN  IF ~c.ok THEN c.d
      ELSE IF fReverse /\ IsBOT(d)
        THEN EmptyTransfer(SetDataInt(d, TMIC_BOT, 0, TMFC_NONE), TRUE)
      ELSE LET r == ReadForwardRecord(d, env)
           IN  IF r.ret.kind = "REC"
                 THEN ReadTransfer(r.d, r.ret.len, fReverse, bFormat, lByteCount, env)
               ELSE IF r.ret.kind = "TAPEMARK"
                 THEN EmptyTransfer(SetDataInt(WriteMBR(r.d, TMBCR, 0),
                                               TMIC_TAPE_MARK, 0, TMFC_NONE), TRUE)
               ELSE IF r.ret.kind = "EOTBOT"
                 THEN EmptyTransfer(SetDataInt(WriteMBR(r.d, TMBCR, 0),
                                               TMIC_EOT, 0, TMFC_NONE), TRUE)
               ELSE EmptyTransfer(SetDataInt(WriteMBR(r.d, TMBCR, 0),
                                             TMIC_UNREADABLE, 0, 1), TRUE)

DoWrite(d, bFormat, lByteCount, env) ==
  LET c == CheckWritable(d, FALSE)
  IN  IF ~c.ok THEN c.d
      ELSE LET clRecord == IF bFormat = TMAM_10_COMPATIBLE
                             THEN (lByteCount * 2) \div 4
                             ELSE (lByteCount * 2) \div 5
               d1 == SetDataInt(ClearBitMBR(d, TMTCR, TMTCR_M_REC_COUNT),
                                TMIC_DONE, 0, TMFC_NONE)
               r == ReadData(d1, clRecord, env)
               f == Fiddle18to8(bFormat, ZeroHalfwords(clRecord), clRecord)
           IN  IF r.d.crashed THEN r.d
               ELSE IF ~r.ok THEN r.d
               ELSE IF f.fault THEN Crash(r.d, "ASSERT")
               ELSE ImageWriteRecord(r.d, Len(f.bytes), env)

\* a DoTransferCommand that takes any record count
DoTransferCommandAnyCount(d, bFunction, env) ==
  LET nTCR == ReadMBR(d, TMTCR)
      bFormat == BitAnd(nTCR, TMTCR_M_FORMAT) \div 4096
      bSkipCount == BitAnd(nTCR, TMTCR_M_SKIP_COUNT) \div 256
      bSlave == BitAnd(nTCR, TMTCR_M_CMD_ADDR)
      lByteCount == IF ReadMBR(d, TMBCR) = 0 THEN 65536 ELSE ReadMBR(d, TMBCR)
      errret == EmptyTransfer(SetDataInt(d, TMIC_TM_FAULT_A, 0, TMFC_NONE), TRUE)
  IN  IF bSlave # 0 THEN errret
      ELSE IF bFormat # TMAM_10_COMPATIBLE /\ bFormat # TMAM_10_CORE_DUMP THEN errret
      ELSE IF bSkipCount # 0 THEN errret
      ELSE CASE bFunction = TMCMD_RD_FWD -> DoRead(d, FALSE, bFormat, lByteCount, env)
             [] bFunction = TMCMD_RD_REV -> DoRead(d, TRUE, bFormat, lByteCount, env)
             [] bFunction = TMCMD_WRT_PE -> DoWrite(d, bFormat, lByteCount, env)
             [] bFunction = TMCMD_WRT_GCR -> DoWrite(d, bFormat, lByteCount, env)
             [] bFunction = TMCMD_RD_EXSNS -> DoReadExtendedSense(d, env)
             [] OTHER -> errret
DoTransferCommand(d, bFunction, env) ==
  LET nTCR == ReadMBR(d, TMTCR)
      bFormat == BitAnd(nTCR, TMTCR_M_FORMAT) \div 4096
      bSkipCount == BitAnd(nTCR, TMTCR_M_SKIP_COUNT) \div 256
      bRecordCount == BitAnd(nTCR, TMTCR_M_REC_COUNT) \div 4
      bSlave == BitAnd(nTCR, TMTCR_M_CMD_ADDR)
      lByteCount == IF ReadMBR(d, TMBCR) = 0 THEN 65536 ELSE ReadMBR(d, TMBCR)
      errret == EmptyTransfer(SetDataInt(d, TMIC_TM_FAULT_A, 0, TMFC_NONE), TRUE)
  IN  IF bSlave # 0 THEN errret
      ELSE IF bFormat # TMAM_10_COMPATIBLE /\ bFormat # TMAM_10_CORE_DUMP THEN errret
      ELSE IF bSkipCount # 0 THEN errret
      ELSE IF bRecordCount > 1 THEN errret
      ELSE CASE bFunction = TMCMD_RD_FWD -> DoRead(d, FALSE, bFormat, lByteCount, env)
             [] bFunction = TMCMD_RD_REV -> DoRead(d, TRUE, bFormat, lByteCount, env)
             [] bFunction = TMCMD_WRT_PE -> DoWrite(d, bFormat, lByteCount, env)
             [] bFunction = TMCMD_WRT_GCR -> DoWrite(d, bFormat, lByteCount, env)
             [] bFunction = TMCMD_RD_EXSNS -> DoReadExtendedSense(d, env)
             [] OTHER -> errret

TapeDoCommand(d, lCommand, env) ==
  LET wCommand == LOWORD(ExtractCommand(lCommand))
      bRegister == ExtractRegister(lCommand)
      bFunction == BitAnd(wCommand, TMCMD_M_MASK)
  IN  IF IsEndofBlock(lCommand) THEN d
      ELSE IF bRegister = TMHCR THEN d
      ELSE IF BitAnd(bRegister, TMMCR0) = TMMCR0
        THEN DoMotionCommand(d, BitAnd(bRegister, 3), bFunction,
                             HIBYTE(wCommand), env)
      ELSE IF bRegister = TMDCR THEN DoTransferCommand(d, bFunction, env)
      ELSE d

-----------------------------------------------------------------------------
(* Disk registers and function codes (MASSBUS.h), the RP06 entry of the      *)
(* drive type table (DriveType.cpp)                                          *)

RPCR == 0
RPDS == 1
RPDA == 5
RPDT == 6
RPSN == 8
RPOF == 9
RPDC == 10

RPCMD_MASK == 63
RPCMD_WCHECK == 41
RPCMD_WHCHECK == 43
RPCMD_WRITE == 49
RPCMD_WHEADER == 51
RPCMD_READ == 57
RPCMD_RHEADER == 59

RPDS_MOL == 4096
RPDS_WLK == 2048
RPDS_DRY == 128
RPDS_VV == 64
RPDT_MOH == 8192
RPOF_FMT22 == 4096

SECTOR_SIZE == 256

\* CDiskType::INVALID_SECTOR, 0xFFFFFFFF: no sector number equals it
INVALID_SECTOR == -1

RP06_MDT == 18
RP06_Sectors16 == 22
RP06_Sectors18 == 20
RP06_Heads == 19
RP06_Cylinders == 815

-----------------------------------------------------------------------------
(* CDiskDrive.  A disk image is a sequence of sectors, sector lLBA at index  *)
(* lLBA + 1; a sector holds 0 until the host writes it and 1 afterwards.     *)

GetSectors(d) == IF d.m_f18Bit THEN RP06_Sectors18 ELSE RP06_Sectors16

\* CDECUPE::SetGeometry: alGeometry[nUnit] takes the three counts, each less
\* one, in fields that do not overlap for a drive of the type table
SetGeometry(d, nCylinders, nHeads, nSectors) ==
  Log([d EXCEPT !.alGeometry =
                  ((nCylinders - 1) * 65536) + ((nHeads - 1) * 256) + (nSectors - 1)],
      Ev("SetGeometry", nSectors, 0))

\* a change of the encoding that tells the bridge nothing
Set18BitUnadvertised(d, f18Bit) ==
  IF f18Bit = d.m_f18Bit THEN d
  ELSE [d EXCEPT !.m_f18Bit = f18Bit]

Set18Bit(d, f18Bit) ==
  IF f18Bit = d.m_f18Bit THEN d
  ELSE LET d1 == [d EXCEPT !.m_f18Bit = f18Bit]
       IN  SetGeometry(d1, RP06_Cylinders, RP06_Heads, GetSectors(d1))

DiskClear(d) ==
  LET d1 == SetGeometry(d, RP06_Cylinders, RP06_Heads, GetSectors(d))
      d2 == WriteMBR(d1, RPDS,
                     BitOr(RPDS_DRY, IF d.m_fReadOnly THEN RPDS_WLK ELSE 0))
      d3 == WriteMBR(d2, RPDT, BitOr(RPDT_MOH, RP06_MDT))
      d4 == WriteMBR(d3, RPSN, d.m_nSerial)
  IN  WriteMBR(d4, RPOF, IF d.m_f18Bit THEN RPOF_FMT22 ELSE 0)

\* a SpinUp that sets volume valid too
SpinUpVolumeValid(d) ==
  IF ~IsAttached(d) THEN Crash(d, "ASSERT")
  ELSE IF IsOnline(d) THEN d
  ELSE [SetBitMBR(d, RPDS, BitOr(RPDS_MOL, RPDS_VV)) EXCEPT !.m_fOnline = TRUE]
SpinUp(d) ==
  IF ~IsAttached(d) THEN Crash(d, "ASSERT")
  ELSE IF IsOnline(d) THEN d
  ELSE [SetBitMBR(d, RPDS, RPDS_MOL) EXCEPT !.m_fOnline = TRUE]

\* a SpinDown that leaves volume valid as it is
SpinDownKeepingVV(d) ==
  IF ~IsAttached(d) THEN Crash(d, "ASSERT")
  ELSE IF ~IsOnline(d) THEN d
  ELSE [ClearBitMBR(d, RPDS, RPDS_MOL) EXCEPT !.m_fOnline = FALSE]
SpinDown(d) ==
  IF ~IsAttached(d) THEN Crash(d, "ASSERT")
  ELSE IF ~IsOnline(d) THEN d
  ELSE [ClearBitMBR(d, RPDS, BitOr(RPDS_MOL, RPDS_VV)) EXCEPT !.m_fOnline = FALSE]

\* the disk types of the drive type table: sectors per track of a 16 bit and
\* of an 18 bit pack, heads, cylinders
DiskTypes ==
  {[name |-> "RP04", nSectors16 |-> 22, nSectors18 |-> 20, nHeads |-> 19, nCylinders |-> 411],
   [name |-> "RP06", nSectors16 |-> RP06_Sectors16, nSectors18 |-> RP06_Sectors18,
    nHeads |-> RP06_Heads, nCylinders |-> RP06_Cylinders],
   [name |-> "RP07", nSectors16 |-> 50, nSectors18 |-> 43, nHeads |-> 32, nCylinders |-> 632],
   [name |-> "RM03", nSectors16 |-> 32, nSectors18 |-> 30, nHeads |-> 5, nCylinders |-> 823],
   [name |-> "RM05", nSectors16 |-> 32, nSectors18 |-> 30, nHeads |-> 19, nCylinders |-> 823],
   [name |-> "RM80", nSectors16 |-> 31, nSectors18 |-> 30, nHeads |-> 14, nCylinders |-> 559]}

RP06type == CHOOSE t \in DiskTypes : t.name = "RP06"

\* CDiskType::GetSectors
TypeSectors(t, f18Bit) == IF f18Bit THEN t.nSectors18 ELSE t.nSectors16

\* CDiskType::IsValidCHS
IsValidCHS(t, nCylinder, nHead, nSector, f18Bit) ==
  /\ nCylinder < t.nCylinders
  /\ nHead < t.nHeads
  /\ nSector < TypeSectors(t, f18Bit)

\* a conversion that takes every pack for a 16 bit pack
DiskCHStoLBAIgnoringFormat(t, nCylinder, nHead, nSector, f18Bit) ==
  IF IsValidCHS(t, nCylinder, nHead, nSector, f18Bit)
    THEN ((nCylinder * t.nHeads) + nHead) * TypeSectors(t, FALSE) + nSector
    ELSE INVALID_SECTOR

\* CDiskType::CHStoLBA
DiskCHStoLBA(t, nCylinder, nHead, nSector, f18Bit) ==
  IF IsValidCHS(t, nCylinder, nHead, nSector, f18Bit)
    THEN ((nCylinder * t.nHeads) + nHead) * TypeSectors(t, f18Bit) + nSector
    ELSE INVALID_SECTOR

\* CDiskType::LBAtoCHS: the sector and the head go to a uint8_t, the cylinder
\* to a uint16_t; the validity test is made with the default f18Bit = false
LBAtoCHS(t, lLBA, f18Bit) ==
  LET nSector == (lLBA % TypeSectors(t, f18Bit)) % 256
      lLBA1 == lLBA \div TypeSectors(t, f18Bit)
      nHead == (lLBA1 % t.nHeads) % 256
      nCylinder == (lLBA1 \div t.nHeads) % 65536
  IN  IF IsValidCHS(t, nCylinder, nHead, nSector, FALSE)
        THEN [c |-> nCylinder, h |-> nHead, s |-> nSector]
        ELSE [c |-> 65535, h |-> 255, s |-> 255]

\* CDiskType::CHStoLBA for the RP06
CHStoLBA(nCylinder, nHead, nSector, f18Bit) ==
  DiskCHStoLBA(RP06type, nCylinder, nHead, nSector, f18Bit)

GetDesiredLBA(d) ==
  CHStoLBA(ReadMBR(d, RPDC), HIBYTE(ReadMBR(d, RPDA)), LOBYTE(ReadMBR(d, RPDA)),
           d.m_f18Bit)

\* CDiskImageFile::ReadSector / WriteSector behind ReadSector16/18 and
\* WriteSector16/18: [ok, d].  The host of this model addresses sectors the
\* image file holds; a transfer outside it is taken to fail.  The trace keeps
\* the sector and what the call returned: 0 for true, 1 for false.
ImageReadSector(d, lLBA, env) ==
  LET ok == ~env.ioError /\ lLBA < Len(d.image)
  IN  [ok |-> ok, d |-> Log(d, Ev("ReadSector", lLBA, IF ok THEN 0 ELSE 1))]

ImageWriteSector(d, lLBA, env) ==
  IF env.ioError \/ lLBA >= Len(d.image)
    THEN [ok |-> FALSE, d |-> Log(d, Ev("WriteSector", lLBA, 1))]
    ELSE [ok |-> TRUE,
          d |-> Log([d EXCEPT !.image[lLBA + 1] = 1], Ev("WriteSector", lLBA, 0))]

DiskDoRead(d, env) ==
  IF ~IsOnline(d) THEN Crash(d, "ASSERT")
  ELSE LET lLBA == GetDesiredLBA(d)
           r == ImageReadSector(d, lLBA, env)
       IN  IF lLBA = INVALID_SECTOR THEN SpinDown(d)
           ELSE IF ~r.ok THEN SpinDown(r.d)
           ELSE WriteData(r.d, SECTOR_SIZE, FALSE, env)

DiskDoWrite(d, env) ==
  IF ~IsOnline(d) THEN Crash(d, "ASSERT")
  ELSE LET lLBA == GetDesiredLBA(d)
           r == ReadData(d, SECTOR_SIZE, env)
           w == ImageWriteSector(r.d, lLBA, env)
       IN  IF lLBA = INVALID_SECTOR THEN SpinDown(d)
           ELSE IF ~r.ok THEN SpinDown(r.d)
           ELSE IF IsReadOnly(d) THEN SpinDown(r.d)
           ELSE IF ~w.ok THEN SpinDown(w.d)
           ELSE w.d

DiskDoCommand(d, lCommand, env) ==
  LET bFunction == BitAnd(ExtractCommand(lCommand) % 65536, RPCMD_MASK)
  IN  IF bFunction \in {RPCMD_READ, RPCMD_RHEADER, RPCMD_WCHECK, RPCMD_WHCHECK}
        THEN DiskDoRead(d, env)
      ELSE IF bFunction \in {RPCMD_WRITE, RPCMD_WHEADER}
        THEN DiskDoWrite(d, env)
      ELSE d

-----------------------------------------------------------------------------
(* CMBA: the units of a bus and the dispatch of a command to one of them.    *)
(* A bus has one unit in this model, unit 0.                                 *)

NoRegs == [r \in 0..31 |-> 0]

\* the drive object the constructors leave behind; the image file and the
\* bridge's registers are not the object's and are there before it
NewDrive(fTape, image, regs) ==
  [exists |-> TRUE, isTape |-> fTape, attached |-> FALSE, m_fOnline |-> FALSE,
   m_fReadOnly |-> FALSE, imageRO |-> FALSE, m_f18Bit |-> FALSE,
   m_nSerial |-> 0, image |-> image, pos |-> 0, regs |-> regs,
   alGeometry |-> 0, crashed |-> FALSE, trace |-> <<>>]

\* m_apUnits[0] = NULL
NoDrive(fTape, image, regs) == [NewDrive(fTape, image, regs) EXCEPT !.exists = FALSE]

UnitExists(d, n) == n = 0 /\ d.exists

\* a dispatch that drops the commands of every offline unit
CMBADoCommandOnlineOnly(fTapeBus, d, lCommand, env) ==
  IF ~IsCommandValid(lCommand) THEN Crash(d, "ASSERT")
  ELSE IF ~UnitExists(d, ExtractUnit(lCommand)) THEN d
  ELSE IF ~IsOnline(d) THEN d
  ELSE IF d.isTape THEN TapeDoCommand(d, lCommand, env)
  ELSE DiskDoCommand(d, lCommand, env)

\* CMBA::DoCommand
CMBADoCommand(fTapeBus, d, lCommand, env) ==
  IF ~IsCommandValid(lCommand) THEN Crash(d, "ASSERT")
  ELSE IF ~UnitExists(d, ExtractUnit(lCommand)) THEN d
  ELSE IF ~fTapeBus /\ ~IsOnline(d) THEN d
  ELSE IF d.isTape THEN TapeDoCommand(d, lCommand, env)
  ELSE DiskDoCommand(d, lCommand, env)

-----------------------------------------------------------------------------
(* The drive's virtual methods as the operator interface calls them, and the *)
(* mutations of the operator commands (CUI::Do...), each the work done       *)
(* between LockUI and UnlockUI.                                              *)

GoOnline(d) == IF d.isTape THEN TapeGoOnline(d) ELSE SpinUp(d)

GoOffline(d) == IF d.isTape THEN TapeGoOffline(d) ELSE SpinDown(d)

\* CBaseDrive::Detach
BaseDetach(d) ==
  IF IsAttached(d)
    THEN [(IF IsOnline(d) THEN GoOffline(d) ELSE d) EXCEPT !.attached = FALSE]
    ELSE d

\* CDiskDrive::Detach for a disk, CBaseDrive::Detach for a tape
Detach(d) ==
  IF d.isTape THEN BaseDetach(d)
  ELSE LET d1 == SpinDown(d) IN IF d1.crashed THEN d1 ELSE BaseDetach(d1)

Clear(d) == IF d.isTape THEN TapeClear(d) ELSE DiskClear(d)

\* CBaseDrive::Attach.  The image file opens read only when that was asked
\* for or when the host file is write protected.
BaseAttach(d, fReadOnly, fProtected, fOpened) ==
  LET d1 == IF IsAttached(d) THEN Detach(d) ELSE d
  IN  IF d1.crashed \/ ~fOpened THEN d1
      ELSE Clear([d1 EXCEPT !.attached = TRUE,
                            !.imageRO = fReadOnly \/ fProtected,
                            !.m_fReadOnly = fReadOnly \/ fProtected,
                            !.m_fOnline = FALSE,
                            !.pos = 0])

\* CDiskDrive::SetReadOnly for a disk, CBaseDrive::SetReadOnly for a tape
SetReadOnly(d, fReadOnly) ==
  IF d.isTape THEN d
  ELSE IF IsReadOnly(d)
    THEN [SetBitMBR(d, RPDS, RPDS_WLK) EXCEPT !.m_fReadOnly = TRUE]
    ELSE [ClearBitMBR(d, RPDS, RPDS_WLK) EXCEPT !.m_fReadOnly = FALSE]

\* ~CTapeDrive / ~CDiskDrive, then m_apUnits[nUnit] = NULL
DeleteDrive(d) ==
  LET d1 == IF IsOnline(d)
              THEN (IF d.isTape THEN TapeDoRewind(d) ELSE SpinDown(d))
              ELSE d
      d2 == IF IsAttached(d1) THEN Detach(d1) ELSE d1
  IN  [NoDrive(d.isTape, d2.image, d2.regs) EXCEPT !.trace = d2.trace,
                                                   !.alGeometry = d2.alGeometry,
                                                   !.crashed = d2.crashed]

\* CUI::DoConnect: CMBA::AddUnit
UIConnect(fTapeBus, d) ==
  [NewDrive(fTapeBus, d.image, d.regs) EXCEPT !.alGeometry = d.alGeometry]

\* CUI::DoDisconnect: CMBA::RemoveUnit
UIDisconnect(d) == DeleteDrive(d)

\* CUI::DoAttach
UIAttach(d, fReadOnly, fProtected, fOpened, f18bits, fOnline) ==
  LET d1 == BaseAttach(d, fReadOnly, fProtected, fOpened)
      d2 == IF d1.isTape THEN d1 ELSE Set18Bit(d1, f18bits)
  IN  IF d1.crashed \/ ~fOpened THEN d1
      ELSE IF fOnline THEN GoOnline(d2) ELSE d2

\* CUI::DoDetach
UIDetach(d) == Detach(d)

\* CUI::DoRewind
UIRewind(d) == ManualRewind(d)

\* CUI::DoSetUnit: modWrite and modOnline are "absent", "yes" or "no"
UISetUnit(d, modWrite, modOnline) ==
  LET d1 == IF modWrite # "absent" /\ (modWrite = "no") # IsReadOnly(d)
              THEN SetReadOnly(d, modWrite = "no")
              ELSE d
  IN  IF modOnline = "no" /\ IsOnline(d1) THEN GoOffline(d1)
      ELSE IF modOnline = "yes" /\ ~IsOnline(d1) /\ IsAttached(d1) THEN GoOnline(d1)
      ELSE d1

-----------------------------------------------------------------------------
(* The world around the program: two buses, a tape bus A and a disk bus B,   *)
(* the image files on the host, and what the bridge and the image library    *)
(* may answer during one command.                                            *)

Buses == {"A", "B"}

\* CMBA::IsTape: the kind of bridge the bus was created on
BusIsTape(b) == b = "A"

\* the tape image file: records of 4 and 5 bytes around a tape mark
TapeImages == {<<4, 0, 5>>}

\* the disk image file: DiskImageSectors sectors the host has not written yet
BlankDisk == [i \in 1..DiskImageSectors |-> 0]

\* fifoTimeout: the data FIFO times out; ioError: the image library reports
\* an I/O error; markRet: the value WriteMark returns
EnvOK == [fifoTimeout |-> FALSE, ioError |-> FALSE, markRet |-> FALSE]

\* what can go wrong during a motion command and during a data transfer
MotionEnvs == {EnvOK, [EnvOK EXCEPT !.ioError = TRUE], [EnvOK EXCEPT !.markRet = TRUE]}

TransferEnvs ==
  {EnvOK, [EnvOK EXCEPT !.fifoTimeout = TRUE], [EnvOK EXCEPT !.ioError = TRUE]}

NoCommand ==
  [b |-> "A", kind |-> "none", reg |-> 0, fn |-> 0, handled |-> FALSE,
   before |-> NoDrive(TRUE, <<>>, NoRegs), lCommand |-> TIMEOUT]

\* a handler or an operator command starts a new trace
Fresh(d) == [d EXCEPT !.trace = <<>>]

Alive == \A b \in Buses : ~unit[b].crashed

\* no bus is created, the main thread sits in the operator's command loop
BusInit ==
  /\ m_buses = <<>>
  /\ upeOffline = [b \in Buses |-> FALSE]
  /\ fifo = [b \in Buses |-> <<>>]
  /\ tpc = [b \in Buses |-> "none"]
  /\ cmd = [b \in Buses |-> TIMEOUT]
  /\ m_UIlock = [b \in Buses |-> "free"]
  /\ exitReq = [b \in Buses |-> FALSE]
  /\ mpc = "ui"
  /\ ucmd = [op |-> "none", b |-> "A"]
  /\ it = 0
  /\ nOps = 0
  /\ nCmds = 0
  /\ readLog = [b \in Buses |-> <<>>]
  /\ dispLog = [b \in Buses |-> <<>>]
  /\ afterExit = [b \in Buses |-> [waits |-> 0, cmds |-> 0]]
  /\ shutLog = <<>>

\* no address is under way
GeoIdle ==
  geo = [t |-> RP06type, f18Bit |-> FALSE, start |-> "off", stage |-> 0,
         c |-> 0, h |-> 0, s |-> 0, l |-> 0, c0 |-> 0, h0 |-> 0, s0 |-> 0, l0 |-> 0]

\* no call has been made on the unit slots or on the register window
BridgeIdle ==
  /\ m_apUnits = [n \in 0..7 |-> FALSE]
  /\ lDrivesAttached = 0
  /\ alRegisters = [u \in 0..7 |-> [regs |-> [r \in 0..31 |-> 0], trace |-> <<>>]]
  /\ bridgeOp = [op |-> "none", n |-> 0, u |-> 0, r |-> 0, m |-> 0, count |-> 0,
                 before |-> alRegisters]

\* no sector transfer is under way
SecIdle ==
  sec = [f18Bit |-> FALSE, op |-> "off", lLBA |-> 0, count |-> 0,
         image |-> <<>>, before |-> <<>>, written |-> <<>>,
         fifoIn |-> <<>>, fifoOut |-> <<>>]

\* no data transfer call is under way
XferIdle ==
  xfer = [pc |-> "off", fn |-> "none", isTape |-> FALSE, offline |-> FALSE,
          clData |-> 0, fException |-> FALSE, plData |-> <<>>, i |-> 0,
          tmo |-> 0, ret |-> "none", window |-> <<>>, calls |-> 0]

PureIdle == GeoIdle /\ SecIdle /\ XferIdle /\ BridgeIdle

\* the fiddler harness at rest
FiddleIdle ==
  /\ tFormat = TMAM_10_COMPATIBLE
  /\ tReverse = FALSE
  /\ tLength = 1
  /\ abIn = ZeroBytes
  /\ alOut = [hw |-> <<>>, fault |-> FALSE, top |-> 0]
  /\ abOut = [bytes |-> <<>>, fault |-> FALSE]
  /\ fpc = "off"

\* no unit is connected to either bus
UnitInit ==
  \E img \in TapeImages :
    unit = [b \in Buses |-> IF BusIsTape(b) THEN NoDrive(TRUE, img, NoRegs)
                                            ELSE NoDrive(FALSE, BlankDisk, NoRegs)]

-----------------------------------------------------------------------------
(* SpecDrive: operator commands and host commands run one at a time, each    *)
(* to completion, on the unit of a bus.                                      *)

MotionFunctions ==
  {TMCMD_NOP, TMCMD_UNLOAD, TMCMD_REWIND, TMCMD_SENSE, TMCMD_DSE, TMCMD_WTM_PE,
   TMCMD_WTM_GCR, TMCMD_SP_FWD_REC, TMCMD_SP_REV_REC, TMCMD_SP_FWD_FILE,
   TMCMD_SP_REV_FILE, TMCMD_ERG_PE, TMCMD_ERG_GCR}

\* what the host sends to the slaves that are not there
OtherSlaveFunctions == {TMCMD_SENSE, TMCMD_REWIND, TMCMD_WTM_PE}

TransferFunctions ==
  {TMCMD_RD_FWD, TMCMD_RD_REV, TMCMD_WRT_PE, TMCMD_WRT_GCR, TMCMD_RD_EXSNS,
   TMCMD_WRT_CK_FWD}

MkTCR(bFormat, bSkipCount, bRecordCount, bSlave) ==
  bFormat * 4096 + bSkipCount * 256 + bRecordCount * 4 + bSlave

\* two setups the formatter accepts and four it rejects
AcceptedControls ==
  {MkTCR(TMAM_10_COMPATIBLE, 0, 1, 0), MkTCR(TMAM_10_CORE_DUMP, 0, 1, 0)}

TapeControls ==
  AcceptedControls \cup
  {MkTCR(1, 0, 1, 0), MkTCR(TMAM_10_COMPATIBLE, 1, 1, 0),
   MkTCR(TMAM_10_COMPATIBLE, 0, 2, 0), MkTCR(TMAM_10_COMPATIBLE, 0, 1, 1)}

\* 0 stands for 65536; 1 is the shortest record the host can ask for
ByteCounts == {0, 1, 4, 5}

DiskFunctions == {1, RPCMD_WCHECK, RPCMD_WRITE, RPCMD_WHEADER, RPCMD_READ}

\* two sectors of track 0, a sector number only the tracks of a 16 bit pack
\* have and one no track has
DiskSectors == {0, 1, 21, 25}

DriveInit ==
  /\ UnitInit
  /\ last = NoCommand
  /\ steps = 0
  /\ FiddleIdle
  /\ BusInit
  /\ PureIdle

Running == steps < MaxSteps /\ Alive

\* an operator command has changed unit b to d
OperatorDid(b, d) ==
  /\ unit' = [unit EXCEPT ![b] = d]
  /\ last' = NoCommand
  /\ steps' = steps + 1
  /\ UNCHANGED <<pureVars, fiddleVars, busVars, mainVars, histVars>>

\* the host has written wValue to register reg of unit 0 of bus b, whose
\* drive was d0 at that moment, and CMBA::DoCommand has run on the descriptor
HostDid(b, kind, reg, wValue, d0, lCommand, env) ==
  /\ unit' = [unit EXCEPT ![b] = CMBADoCommand(BusIsTape(b), d0, lCommand, env)]
  /\ last' = [b |-> b, kind |-> kind, reg |-> reg,
              fn |-> BitAnd(wValue, TMCMD_M_MASK),
              handled |-> /\ UnitExists(d0, ExtractUnit(lCommand))
                          /\ (BusIsTape(b) \/ IsOnline(d0)),
              before |-> d0, lCommand |-> lCommand]
  /\ steps' = steps + 1
  /\ UNCHANGED <<pureVars, fiddleVars, busVars, mainVars, histVars>>

DrvConnect(b) ==
  /\ Running /\ ~unit[b].exists
  /\ OperatorDid(b, UIConnect(BusIsTape(b), Fresh(unit[b])))

DrvDisconnect(b) ==
  /\ Running /\ unit[b].exists
  /\ OperatorDid(b, UIDisconnect(Fresh(unit[b])))

DrvAttach(b) ==
  /\ Running /\ unit[b].exists
  /\ \E fReadOnly, fProtected, fOpened, f18bits, fOnline \in BOOLEAN :
       /\ BusIsTape(b) => f18bits
       /\ fProtected => ~fReadOnly
       /\ ~fOpened => ~fReadOnly /\ ~fProtected /\ ~fOnline /\ f18bits
       /\ OperatorDid(b, UIAttach(Fresh(unit[b]), fReadOnly, fProtected,
                                  fOpened, f18bits, fOnline))

DrvDetach(b) ==
  /\ Running /\ unit[b].exists /\ IsAttached(unit[b])
  /\ OperatorDid(b, UIDetach(Fresh(unit[b])))

DrvRewind(b) ==
  /\ Running /\ unit[b].exists /\ IsAttached(unit[b]) /\ unit[b].isTape
  /\ OperatorDid(b, UIRewind(Fresh(unit[b])))

DrvSetUnit(b) ==
  /\ Running /\ unit[b].exists
  /\ \E modWrite, modOnline \in {"absent", "yes", "no"} :
       OperatorDid(b, UISetUnit(Fresh(unit[b]), modWrite, modOnline))

\* a host write: wValue goes to register reg of a unit of bus b, whose unit 0
\* is d0 at that moment, and the bridge queues lCommand for it
HostInput(b, kind, reg, wValue, d0, lCommand, env) ==
  [b |-> b, kind |-> kind, reg |-> reg, wValue |-> wValue, d0 |-> d0,
   lCommand |-> lCommand, env |-> env]

\* the writes to the motion command registers of the tape unit
HostMotion ==
  IF ~unit["A"].exists THEN {}
  ELSE {LET reg == TMMCR0 + i.nSlave
            wValue == MKWORD(i.bCount, i.bFunction)
        IN  HostInput("A", "motion", reg, wValue,
                      Fresh([unit["A"] EXCEPT !.regs[reg] = wValue]),
                      MkDescriptor(0, reg, wValue), i.env) :
        i \in {j \in [nSlave : 0..3, bFunction : MotionFunctions,
                      bCount : {0, 2, 4}, env : MotionEnvs] :
                 /\ j.nSlave # 0 => /\ j.bFunction \in OtherSlaveFunctions
                                    /\ j.bCount = 0 /\ j.env = EnvOK
                 /\ j.env # EnvOK => j.bCount = 2
                 /\ j.bCount = 4 => j.bFunction \in {TMCMD_SP_FWD_REC, TMCMD_SP_FWD_FILE}}}

\* the writes to the data transfer command register of the tape unit, after
\* the tape control and byte count registers have been set up
HostTransfer ==
  IF ~unit["A"].exists THEN {}
  ELSE {HostInput("A", "transfer", TMDCR, i.bFunction,
                  Fresh([unit["A"] EXCEPT !.regs[TMTCR] = i.nTCR,
                                          !.regs[TMBCR] = i.nBCR,
                                          !.regs[TMDCR] = i.bFunction]),
                  MkDescriptor(0, TMDCR, i.bFunction), i.env) :
        i \in {j \in [bFunction : TransferFunctions, nTCR : TapeControls,
                      nBCR : ByteCounts, env : TransferEnvs] :
                 /\ j.nTCR \notin AcceptedControls =>
                      /\ j.nBCR = 4 /\ j.env = EnvOK
                      /\ \/ j.bFunction \in {TMCMD_RD_FWD, TMCMD_WRT_PE}
                         \/ j.nTCR = MkTCR(TMAM_10_COMPATIBLE, 0, 2, 0)
                 /\ j.nBCR = 0 => /\ j.bFunction \in {TMCMD_RD_FWD, TMCMD_RD_REV}
                                  /\ j.env = EnvOK
                 /\ j.nBCR = 1 => j.bFunction = TMCMD_WRT_PE /\ j.env = EnvOK}}

\* an end of block signal, a write to the hardware control register and a
\* descriptor naming a register that is no command register
HostOther ==
  IF ~unit["A"].exists THEN {}
  ELSE {HostInput("A", "other", ExtractRegister(lCommand), 0, Fresh(unit["A"]),
                  lCommand, EnvOK) :
        lCommand \in {[v |-> 1, w |-> END_OF_BLOCK + TMCMD_RD_FWD],
                      MkDescriptor(0, TMHCR, 0), MkDescriptor(0, TMUS, 0)}}

\* the writes to the control register of the disk unit, after the desired
\* address registers have been set up
HostDisk ==
  IF ~unit["B"].exists THEN {}
  ELSE {HostInput("B", "disk", RPCR, i.bFunction,
                  Fresh([unit["B"] EXCEPT !.regs[RPDA] = MKWORD(0, i.nSector),
                                          !.regs[RPDC] = 0,
                                          !.regs[RPCR] = i.bFunction]),
                  MkDescriptor(0, RPCR, i.bFunction), i.env) :
        i \in {j \in [bFunction : DiskFunctions, nSector : DiskSectors,
                      env : TransferEnvs] :
                 j.nSector = 21 => /\ j.bFunction \in {RPCMD_READ, RPCMD_WRITE}
                                   /\ j.env = EnvOK}}

\* the writes to a command register of a unit that is not connected
HostAbsent ==
  {LET reg == IF BusIsTape(i.b) THEN TMMCR0 ELSE RPCR
       wValue == IF BusIsTape(i.b) THEN MKWORD(0, TMCMD_SENSE) ELSE RPCMD_READ
   IN  HostInput(i.b, "absent", reg, wValue, Fresh(unit[i.b]),
                 MkDescriptor(i.nUnit, reg, wValue), EnvOK) :
   i \in {j \in [b : Buses, nUnit : {0, 1}] : ~UnitExists(unit[j.b], j.nUnit)}}

\* the host writes a register and the service thread hands the descriptor to
\* CMBA::DoCommand
HostCommand ==
  /\ Running
  /\ \E i \in HostMotion \cup HostTransfer \cup HostOther \cup HostDisk \cup HostAbsent :
       HostDid(i.b, i.kind, i.reg, i.wValue, i.d0, i.lCommand, i.env)

DriveNext ==
  \/ \E b \in Buses : DrvConnect(b)
  \/ \E b \in Buses : DrvDisconnect(b)
  \/ \E b \in Buses : DrvAttach(b)
  \/ \E b \in Buses : DrvDetach(b)
  \/ \E b \in Buses : DrvRewind(b)
  \/ \E b \in Buses : DrvSetUnit(b)
  \/ HostCommand

SpecDrive == DriveInit /\ [][DriveNext]_vars

-----------------------------------------------------------------------------
(* SpecMounted: the last command of a run.  The tape unit has been connected *)
(* and attached and the host has spaced the tape to some item of it, or the  *)
(* unit is offline, not attached or not connected; the disk unit is online or *)
(* attached and offline or not connected.  One more operator or host command *)
(* runs.                                                                     *)

MountedImages == {<<4, 5, 0, 5>>, <<>>}

\* the unit after the host has written a SPACE FORWARD RECORD of one record
\* to TMMCR0 and the handler has run
HostSpace(d) ==
  LET wValue == MKWORD(1, TMCMD_SP_FWD_REC)
  IN  CMBADoCommand(TRUE, Fresh([d EXCEPT !.regs[TMMCR0] = wValue]),
                    MkDescriptor(0, TMMCR0, wValue), EnvOK)

\* the unit after n such commands
RECURSIVE Spaced(_, _)
Spaced(d, n) == IF n = 0 THEN d ELSE Spaced(HostSpace(d), n - 1)

\* the tape units the last command finds
MountedTapes ==
  LET none(img) == NoDrive(TRUE, img, NoRegs)
      idle(img) == UIConnect(TRUE, none(img))
  IN  UNION {{none(img), idle(img)} \cup
             {UIAttach(idle(img), fReadOnly, FALSE, TRUE, TRUE, FALSE) :
                fReadOnly \in BOOLEAN} \cup
             {Spaced(UIAttach(idle(img), fReadOnly, FALSE, TRUE, TRUE, TRUE), n) :
                fReadOnly \in BOOLEAN, n \in 0..Len(img)} :
             img \in MountedImages}

\* the host's pack acknowledge: the bridge sets volume valid in RPDS
PackAcknowledged(d) == [d EXCEPT !.regs[RPDS] = BitOr(@, RPDS_VV)]

\* the disk units the last command finds: not connected, or attached and
\* offline with a writable pack of either format, or online, with a pack of
\* either format, writable or not, acknowledged by the host or not
MountedDisks ==
  LET none == NoDrive(FALSE, BlankDisk, NoRegs)
      offline(f18bits) ==
        UIAttach(UIConnect(FALSE, none), FALSE, FALSE, TRUE, f18bits, FALSE)
      online(fReadOnly, f18bits) ==
        UIAttach(UIConnect(FALSE, none), fReadOnly, FALSE, TRUE, f18bits, TRUE)
  IN  {none} \cup
      {offline(f18bits) : f18bits \in BOOLEAN} \cup
      {online(fReadOnly, f18bits) : fReadOnly, f18bits \in BOOLEAN} \cup
      {PackAcknowledged(online(fReadOnly, f18bits)) : fReadOnly, f18bits \in BOOLEAN}

MountedInit ==
  /\ \E t \in MountedTapes, k \in MountedDisks :
       unit = [b \in Buses |-> Fresh(IF BusIsTape(b) THEN t ELSE k)]
  /\ last = NoCommand
  /\ steps = MaxSteps - 1
  /\ FiddleIdle
  /\ BusInit
  /\ PureIdle

SpecMounted == MountedInit /\ [][DriveNext]_vars

-----------------------------------------------------------------------------
(* Spec: the main thread (operator commands, then shutdown) and the service  *)
(* thread of each bus, one step at a time.                                   *)

\* CMBAs::FindBus
FindBus(b) == \E i \in 1..Len(m_buses) : m_buses[i] = b

\* CMutex::Enter returns when nobody holds the gate
CanEnter(l) == l = "free"

\* CThread::WaitExit returns when the thread has ended
Joined(pc) == pc = "end"

\* CThread::IsExitRequested
IsExitRequested(b) == exitReq[b]

\* where CommandLoop goes with the word WaitCommand returned
LoopAlwaysDispatch(c) == "enter"

LoopAfterWait(c) ==
  IF c = ERROR THEN "end" ELSE IF c = TIMEOUT THEN "top" ELSE "enter"

\* the order in which main deletes its global objects
ShutdownOrderLogFirst == <<"parser", "log", "mbas", "upes", "console">>

ShutdownOrder == <<"parser", "mbas", "upes", "log", "console">>

\* the statement of main after the delete of s
After(s) ==
  LET i == CHOOSE k \in 1..Len(ShutdownOrder) : ShutdownOrder[k] = s
  IN  IF i = Len(ShutdownOrder) THEN "done" ELSE ShutdownOrder[i + 1]

\* a read of the command FIFO: the oldest descriptor, or a word without the
\* validity bit when the FIFO is empty
\* a FIFO that hands out the newest descriptor first
ReadCommandFIFONewest(q) == IF q = <<>> THEN [v |-> 0, w |-> 0] ELSE q[Len(q)]

ReadCommandFIFO(q) == IF q = <<>> THEN [v |-> 0, w |-> 0] ELSE Head(q)

PopCommandFIFO(q) == IF q = <<>> THEN q ELSE Tail(q)

Shut(e, b, had) == [e |-> e, b |-> b, had |-> had]

\* what the operator types
UIVerbs == {"connect", "disconnect", "attach", "detach", "rewind", "setunit"}

\* the checks a command makes before it takes the gate
UIAccepts(op, d) ==
  CASE op = "connect"    -> ~d.exists
    [] op = "disconnect" -> d.exists
    [] op = "attach"     -> d.exists
    [] op = "detach"     -> d.exists /\ IsAttached(d)
    [] op = "rewind"     -> d.exists /\ IsAttached(d) /\ d.isTape
    [] op = "setunit"    -> d.exists

\* the drives a command may leave behind, over the modifiers and over what
\* the host's file system answers
UIOutcomes(op, fTapeBus, d) ==
  CASE op = "connect"    -> {UIConnect(fTapeBus, d)}
    [] op = "disconnect" -> {UIDisconnect(d)}
    [] op = "attach"     ->
         {UIAttach(d, fReadOnly, FALSE, TRUE, TRUE, fOnline) :
            fReadOnly \in BOOLEAN, fOnline \in BOOLEAN}
         \cup {UIAttach(d, FALSE, FALSE, FALSE, TRUE, FALSE)}
    [] op = "detach"     -> {UIDetach(d)}
    [] op = "rewind"     -> {UIRewind(d)}
    [] op = "setunit"    -> {UISetUnit(d, "absent", modOnline) : modOnline \in {"yes", "no"}}

\* what the host writes: UNLOAD to the tape, WRITE or READ of sector 0 to the
\* disk
HostRegister(b) == IF BusIsTape(b) THEN TMMCR0 ELSE RPCR

\* descriptors differ from their predecessors: the tape's UNLOAD carries the
\* number of the write in its count field, the disk gets WRITE and READ in turn
HostValue(b) ==
  IF BusIsTape(b) THEN MKWORD(nCmds, TMCMD_UNLOAD)
  ELSE IF nCmds % 2 = 0 THEN RPCMD_WRITE ELSE RPCMD_READ

Init ==
  /\ UnitInit
  /\ last = NoCommand
  /\ steps = 0
  /\ FiddleIdle
  /\ BusInit
  /\ PureIdle

\* CUI::DoCreate: the bus joins the collection and its thread starts
UICreate(b) ==
  /\ Alive /\ mpc = "ui" /\ nOps < MaxOps
  /\ ~FindBus(b)
  /\ \E fOffline \in BOOLEAN : upeOffline' = [upeOffline EXCEPT ![b] = fOffline]
  /\ m_buses' = Append(m_buses, b)
  /\ tpc' = [tpc EXCEPT ![b] = "top"]
  /\ nOps' = nOps + 1
  /\ UNCHANGED <<pureVars, fiddleVars, driveVars, fifo, cmd, m_UIlock, exitReq,
                 mpc, ucmd, it, nCmds, histVars>>

\* a command that changes a drive has passed its checks and calls LockUI
UIParse(b, op) ==
  /\ Alive /\ mpc = "ui" /\ nOps < MaxOps
  /\ FindBus(b) /\ op \in UIVerbs /\ UIAccepts(op, unit[b])
  /\ ucmd' = [op |-> op, b |-> b]
  /\ mpc' = "lock"
  /\ nOps' = nOps + 1
  /\ UNCHANGED <<pureVars, fiddleVars, driveVars, busVars, it, nCmds, histVars>>

\* CMBA::LockUI
UILock ==
  /\ Alive /\ mpc = "lock"
  /\ CanEnter(m_UIlock[ucmd.b])
  /\ m_UIlock' = [m_UIlock EXCEPT ![ucmd.b] = "ui"]
  /\ mpc' = "mutate"
  /\ UNCHANGED <<pureVars, fiddleVars, driveVars, m_buses, upeOffline, fifo, tpc, cmd,
                 exitReq, ucmd, it, nOps, nCmds, histVars>>

\* the statements of the command between LockUI and UnlockUI
UIMutate ==
  /\ Alive /\ mpc = "mutate"
  /\ \E d \in UIOutcomes(ucmd.op, BusIsTape(ucmd.b), Fresh(unit[ucmd.b])) :
       unit' = [unit EXCEPT ![ucmd.b] = d]
  /\ mpc' = "unlock"
  /\ UNCHANGED <<pureVars, fiddleVars, last, steps, busVars, ucmd, it, nOps, nCmds, histVars>>

\* CMBA::UnlockUI
UIUnlock ==
  /\ Alive /\ mpc = "unlock"
  /\ m_UIlock' = [m_UIlock EXCEPT ![ucmd.b] = "free"]
  /\ mpc' = "ui"
  /\ UNCHANGED <<pureVars, fiddleVars, driveVars, m_buses, upeOffline, fifo, tpc, cmd,
                 exitReq, ucmd, it, nOps, nCmds, histVars>>

\* EXIT: the parser's command loop returns and main starts to shut down
UIExit ==
  /\ Alive /\ mpc = "ui"
  /\ mpc' = ShutdownOrder[1]
  /\ it' = 1
  /\ UNCHANGED <<pureVars, fiddleVars, driveVars, busVars, ucmd, nOps, nCmds, histVars>>

\* delete m_pParser, delete g_pUPEs, delete m_pLog, delete m_pConsole
DeleteGlobal(s) ==
  /\ Alive /\ mpc = s /\ s \in {"parser", "upes", "log", "console"}
  /\ shutLog' = Append(shutLog, Shut(s, "-", FALSE))
  /\ mpc' = After(s)
  /\ UNCHANGED <<pureVars, fiddleVars, driveVars, busVars, ucmd, it, nOps, nCmds,
                 readLog, dispLog, afterExit>>

\* ~CMBAs reaches a bus: ~CMBA calls WaitExit, which asks the thread to exit
BusWaitExit ==
  /\ Alive /\ mpc = "mbas" /\ it <= Len(m_buses)
  /\ exitReq' = [exitReq EXCEPT ![m_buses[it]] = TRUE]
  /\ mpc' = "join"
  /\ UNCHANGED <<pureVars, fiddleVars, driveVars, m_buses, upeOffline, fifo, tpc, cmd,
                 m_UIlock, ucmd, it, nOps, nCmds, histVars>>

\* ~CMBA as it would be without the wait for the thread
BusJoinWithoutWait ==
  /\ Alive /\ mpc = "join"
  /\ shutLog' = Append(shutLog, Shut("join", m_buses[it], FALSE))
  /\ mpc' = "units"
  /\ UNCHANGED <<pureVars, fiddleVars, driveVars, busVars, ucmd, it, nOps, nCmds,
                 readLog, dispLog, afterExit>>

\* WaitExit returns
BusJoin ==
  /\ Alive /\ mpc = "join"
  /\ Joined(tpc[m_buses[it]])
  /\ shutLog' = Append(shutLog, Shut("join", m_buses[it], FALSE))
  /\ mpc' = "units"
  /\ UNCHANGED <<pureVars, fiddleVars, driveVars, busVars, ucmd, it, nOps, nCmds,
                 readLog, dispLog, afterExit>>

\* ~CMBA deletes the units of the bus, then ~CMBAs goes to the next bus
BusDeleteUnits ==
  /\ Alive /\ mpc = "units"
  /\ LET b == m_buses[it]
     IN  /\ unit' = [unit EXCEPT ![b] = IF UnitExists(unit[b], 0)
                                          THEN DeleteDrive(Fresh(unit[b]))
                                          ELSE unit[b]]
         /\ shutLog' = Append(shutLog, Shut("free", b, UnitExists(unit[b], 0)))
  /\ it' = it + 1
  /\ mpc' = "mbas"
  /\ UNCHANGED <<pureVars, fiddleVars, last, steps, busVars, ucmd, nOps, nCmds,
                 readLog, dispLog, afterExit>>

\* ~CMBAs has destroyed every bus
BusesDeleted ==
  /\ Alive /\ mpc = "mbas" /\ it > Len(m_buses)
  /\ mpc' = After("mbas")
  /\ UNCHANGED <<pureVars, fiddleVars, driveVars, busVars, ucmd, it, nOps, nCmds, histVars>>

\* the host writes a command register of unit 0 and the bridge queues the
\* descriptor
HostWrite(b) ==
  /\ Alive /\ FindBus(b) /\ ~upeOffline[b] /\ nCmds < MaxCmds
  /\ unit' = [unit EXCEPT ![b].regs[HostRegister(b)] = HostValue(b)]
  /\ fifo' = [fifo EXCEPT ![b] = Append(@, MkDescriptor(0, HostRegister(b), HostValue(b)))]
  /\ nCmds' = nCmds + 1
  /\ UNCHANGED <<pureVars, fiddleVars, last, steps, m_buses, upeOffline, tpc, cmd,
                 m_UIlock, exitReq, mpc, ucmd, it, nOps, histVars>>

\* CommandLoop as it would be with while (true)
ThreadTopIgnoringExit(b) ==
  /\ Alive /\ tpc[b] = "top"
  /\ tpc' = [tpc EXCEPT ![b] = "wait"]
  /\ UNCHANGED <<pureVars, fiddleVars, driveVars, m_buses, upeOffline, fifo, cmd,
                 m_UIlock, exitReq, mainVars, histVars>>

\* the head of CommandLoop's while
ThreadTop(b) ==
  /\ Alive /\ tpc[b] = "top"
  /\ tpc' = [tpc EXCEPT ![b] = IF IsExitRequested(b) THEN "end" ELSE "wait"]
  /\ UNCHANGED <<pureVars, fiddleVars, driveVars, m_buses, upeOffline, fifo, cmd,
                 m_UIlock, exitReq, mainVars, histVars>>

\* WaitCommand returns c to CommandLoop
Returned(b, c) ==
  /\ cmd' = [cmd EXCEPT ![b] = c]
  /\ tpc' = [tpc EXCEPT ![b] = LoopAfterWait(c)]
  /\ afterExit' = IF exitReq[b] /\ afterExit[b].waits < 2
                    THEN [afterExit EXCEPT ![b].waits = @ + 1]
                    ELSE afterExit

\* WaitCommand on an offline bridge sleeps and returns TIMEOUT
WaitOffline(b) ==
  /\ Alive /\ tpc[b] = "wait" /\ upeOffline[b]
  /\ Returned(b, TIMEOUT)
  /\ UNCHANGED <<pureVars, fiddleVars, driveVars, m_buses, upeOffline, fifo, m_UIlock,
                 exitReq, mainVars, readLog, dispLog, shutLog>>

\* WaitCommand's first read of the command FIFO
WaitFirstRead(b) ==
  /\ Alive /\ tpc[b] = "wait" /\ ~upeOffline[b]
  /\ LET c == ReadCommandFIFO(fifo[b])
     IN  IF IsCommandValid(c)
           THEN /\ Returned(b, c)
                /\ readLog' = [readLog EXCEPT ![b] = Append(@, c)]
           ELSE /\ tpc' = [tpc EXCEPT ![b] = "intr"]
                /\ UNCHANGED <<cmd, afterExit, readLog>>
  /\ fifo' = [fifo EXCEPT ![b] = PopCommandFIFO(@)]
  /\ UNCHANGED <<pureVars, fiddleVars, driveVars, m_buses, upeOffline, m_UIlock,
                 exitReq, mainVars, dispLog, shutLog>>

\* EnableInterrupt fails, or WaitInterrupt times out, is cancelled or fails
WaitNoInterrupt(b) ==
  /\ Alive /\ tpc[b] = "intr"
  /\ \E c \in {TIMEOUT, ERROR} : Returned(b, c)
  /\ UNCHANGED <<pureVars, fiddleVars, driveVars, m_buses, upeOffline, fifo, m_UIlock,
                 exitReq, mainVars, readLog, dispLog, shutLog>>

\* WaitInterrupt succeeds and WaitCommand reads the command FIFO again
WaitInterrupted(b) ==
  /\ Alive /\ tpc[b] = "intr"
  /\ LET c == ReadCommandFIFO(fifo[b])
     IN  IF IsCommandValid(c)
           THEN /\ Returned(b, c)
                /\ readLog' = [readLog EXCEPT ![b] = Append(@, c)]
           ELSE /\ Returned(b, TIMEOUT)
                /\ UNCHANGED readLog
  /\ fifo' = [fifo EXCEPT ![b] = PopCommandFIFO(@)]
  /\ UNCHANGED <<pureVars, fiddleVars, driveVars, m_buses, upeOffline, m_UIlock,
                 exitReq, mainVars, dispLog, shutLog>>

\* CommandLoop as it would be without the call of m_UIlock.Enter
ThreadEnterWithoutGate(b) ==
  /\ Alive /\ tpc[b] = "enter"
  /\ tpc' = [tpc EXCEPT ![b] = "docmd"]
  /\ UNCHANGED <<pureVars, fiddleVars, driveVars, m_buses, upeOffline, fifo, cmd,
                 m_UIlock, exitReq, mainVars, histVars>>

\* pMBA->m_UIlock.Enter()
ThreadEnter(b) ==
  /\ Alive /\ tpc[b] = "enter"
  /\ CanEnter(m_UIlock[b])
  /\ m_UIlock' = [m_UIlock EXCEPT ![b] = "thread"]
  /\ tpc' = [tpc EXCEPT ![b] = "docmd"]
  /\ UNCHANGED <<pureVars, fiddleVars, driveVars, m_buses, upeOffline, fifo, cmd,
                 exitReq, mainVars, histVars>>

\* pMBA->DoCommand(cmd)
ThreadDoCommand(b) ==
  /\ Alive /\ tpc[b] = "docmd"
  /\ unit' = [unit EXCEPT ![b] = CMBADoCommand(BusIsTape(b), Fresh(unit[b]), cmd[b], EnvOK)]
  /\ dispLog' = [dispLog EXCEPT ![b] = Append(@, cmd[b])]
  /\ afterExit' = IF exitReq[b] /\ afterExit[b].cmds < 2
                    THEN [afterExit EXCEPT ![b].cmds = @ + 1]
                    ELSE afterExit
  /\ tpc' = [tpc EXCEPT ![b] = "leave"]
  /\ UNCHANGED <<pureVars, fiddleVars, last, steps, m_buses, upeOffline, fifo, cmd,
                 m_UIlock, exitReq, mainVars, readLog, shutLog>>

\* pMBA->m_UIlock.Leave()
ThreadLeave(b) ==
  /\ Alive /\ tpc[b] = "leave"
  /\ m_UIlock' = [m_UIlock EXCEPT ![b] = "free"]
  /\ tpc' = [tpc EXCEPT ![b] = "top"]
  /\ UNCHANGED <<pureVars, fiddleVars, driveVars, m_buses, upeOffline, fifo, cmd,
                 exitReq, mainVars, histVars>>

ThreadNext(b) ==
  \/ ThreadTop(b)
  \/ WaitOffline(b)
  \/ WaitFirstRead(b)
  \/ WaitNoInterrupt(b)
  \/ WaitInterrupted(b)
  \/ ThreadEnter(b)
  \/ ThreadDoCommand(b)
  \/ ThreadLeave(b)

MainNext ==
  \/ \E b \in Buses : UICreate(b)
  \/ \E b \in Buses, op \in UIVerbs : UIParse(b, op)
  \/ UILock
  \/ UIMutate
  \/ UIUnlock
  \/ UIExit
  \/ \E s \in {"parser", "upes", "log", "console"} : DeleteGlobal(s)
  \/ BusWaitExit
  \/ BusJoin
  \/ BusDeleteUnits
  \/ BusesDeleted

Next ==
  \/ MainNext
  \/ \E b \in Buses : ThreadNext(b)
  \/ \E b \in Buses : HostWrite(b)

Spec == Init /\ [][Next]_vars

\* the scheduler runs every thread that can run
SpecFair == Spec /\ \A b \in Buses : WF_vars(ThreadNext(b))

\* the last operator command of a session: bus A has been created on an online
\* bridge, its thread waits at the head of CommandLoop, and a writable tape
\* has been connected, attached and put online
AttachedInit ==
  /\ \E img \in TapeImages :
       unit = [b \in Buses |->
                 IF BusIsTape(b)
                   THEN Fresh(UIAttach(UIConnect(TRUE, NoDrive(TRUE, img, NoRegs)),
                                       FALSE, FALSE, TRUE, TRUE, TRUE))
                   ELSE NoDrive(FALSE, BlankDisk, NoRegs)]
  /\ last = NoCommand
  /\ steps = 0
  /\ FiddleIdle
  /\ PureIdle
  /\ m_buses = <<"A">>
  /\ upeOffline = [b \in Buses |-> FALSE]
  /\ fifo = [b \in Buses |-> <<>>]
  /\ tpc = [b \in Buses |-> IF b = "A" THEN "top" ELSE "none"]
  /\ cmd = [b \in Buses |-> TIMEOUT]
  /\ m_UIlock = [b \in Buses |-> "free"]
  /\ exitReq = [b \in Buses |-> FALSE]
  /\ mpc = "ui"
  /\ ucmd = [op |-> "none", b |-> "A"]
  /\ it = 0
  /\ nOps = MaxOps - 1
  /\ nCmds = 0
  /\ readLog = [b \in Buses |-> <<>>]
  /\ dispLog = [b \in Buses |-> <<>>]
  /\ afterExit = [b \in Buses |-> [waits |-> 0, cmds |-> 0]]
  /\ shutLog = <<>>

SpecAttached == AttachedInit /\ [][Next]_vars

-----------------------------------------------------------------------------
(* SpecGeometry: a disk address of one type and one pack format goes through *)
(* CHStoLBA and LBAtoCHS, starting from a C/H/S triple or from a sector      *)
(* number.                                                                   *)

\* the sectors of a pack
TotalSectors(t, f18Bit) == t.nCylinders * t.nHeads * TypeSectors(t, f18Bit)

\* the triples tried: the first and the last cylinders and one past them, every
\* head and one past and the largest uint8_t, every sector of the longer track
\* and one past
GeoTriples(t) ==
  {[c |-> c, h |-> h, s |-> s] :
     c \in {0, 1, t.nCylinders - 1, t.nCylinders},
     h \in (0..t.nHeads) \cup {255},
     s \in 0..t.nSectors16}

\* the sector numbers tried: around the ends of the first track, of the first
\* cylinder and of the pack
GeoSectors(t, f18Bit) ==
  {0, 1, TypeSectors(t, f18Bit) - 1, TypeSectors(t, f18Bit),
   t.nHeads * TypeSectors(t, f18Bit) - 1, t.nHeads * TypeSectors(t, f18Bit),
   TotalSectors(t, f18Bit) - TypeSectors(t, f18Bit), TotalSectors(t, f18Bit) - 1}

GeoInit ==
  /\ \E t \in DiskTypes, f18Bit \in BOOLEAN :
       \/ \E a \in GeoTriples(t) :
            geo = [t |-> t, f18Bit |-> f18Bit, start |-> "chs", stage |-> 0,
                   c |-> a.c, h |-> a.h, s |-> a.s, l |-> 0,
                   c0 |-> a.c, h0 |-> a.h, s0 |-> a.s, l0 |-> 0]
       \/ \E l \in GeoSectors(t, f18Bit) :
            geo = [t |-> t, f18Bit |-> f18Bit, start |-> "lba", stage |-> 0,
                   c |-> 0, h |-> 0, s |-> 0, l |-> l,
                   c0 |-> 0, h0 |-> 0, s0 |-> 0, l0 |-> l]
  /\ BridgeIdle
  /\ SecIdle
  /\ XferIdle
  /\ FiddleIdle
  /\ UnitInit
  /\ last = NoCommand
  /\ steps = 0
  /\ BusInit

\* lLBA = CHStoLBA(nCylinder, nHead, nSector, f18Bit)
GeoCHStoLBA ==
  /\ \/ geo.start = "chs" /\ geo.stage = 0
     \/ geo.start = "lba" /\ geo.stage = 1
  /\ geo' = [geo EXCEPT !.l = DiskCHStoLBA(geo.t, geo.c, geo.h, geo.s, geo.f18Bit),
                        !.stage = @ + 1]
  /\ UNCHANGED <<sec, xfer, bridgeVars, fiddleVars, driveVars, busVars, mainVars, histVars>>

\* LBAtoCHS(lLBA, nCylinder, nHead, nSector, f18Bit), of a sector number that
\* is not the invalid one
GeoLBAtoCHS ==
  /\ \/ geo.start = "lba" /\ geo.stage = 0
     \/ geo.start = "chs" /\ geo.stage = 1
  /\ geo.l # INVALID_SECTOR
  /\ LET a == LBAtoCHS(geo.t, geo.l, geo.f18Bit)
     IN  geo' = [geo EXCEPT !.c = a.c, !.h = a.h, !.s = a.s, !.stage = @ + 1]
  /\ UNCHANGED <<sec, xfer, bridgeVars, fiddleVars, driveVars, busVars, mainVars, histVars>>

GeoNext == GeoCHStoLBA \/ GeoLBAtoCHS

SpecGeometry == GeoInit /\ [][GeoNext]_vars

-----------------------------------------------------------------------------
(* SpecUnits: units are connected to and disconnected from the eight unit    *)
(* slots of one bus, and the bridge is told the map of the connected drives. *)

\* CMBA::UnitExists
UnitExistsAt(units, n) == IF n < MAXUNIT THEN units[n] ELSE FALSE

\* a drive map with every bit one place too high
SetDriveMapShifted(units) ==
  LET RECURSIVE Map(_)
      Map(i) == IF i = MAXUNIT THEN 0
                ELSE (IF UnitExistsAt(units, i) THEN 2 ^ (i + 1) ELSE 0) + Map(i + 1)
  IN  Map(0)

\* CMBA::SetDriveMap: nMap, as handed to CDECUPE::SetDrivesAttached
SetDriveMap(units) ==
  LET RECURSIVE Map(_)
      Map(i) == IF i = MAXUNIT THEN 0
                ELSE (IF UnitExistsAt(units, i) THEN 2 ^ i ELSE 0) + Map(i + 1)
  IN  Map(0)

\* CMBA::UnitsConnected
UnitsConnected(units) ==
  LET RECURSIVE Count(_)
      Count(i) == IF i = MAXUNIT THEN 0
                  ELSE (IF UnitExistsAt(units, i) THEN 1 ELSE 0) + Count(i + 1)
  IN  Count(0)

\* the registers the calls are made on: the first and the last of the first
\* and of the last unit
WindowUnits == {0, MAXUNIT - 1}
WindowRegisters == {0, 31}

\* the masks handed to the calls and the words the registers start with
WindowMasks == {1, 32768, 42405}
WindowWords == {0, 23130, 65535}

UnitsInit ==
  /\ BridgeIdle
  /\ GeoIdle
  /\ SecIdle
  /\ XferIdle
  /\ FiddleIdle
  /\ UnitInit
  /\ last = NoCommand
  /\ steps = 0
  /\ BusInit

\* CMBA::AddUnit; the callers connect only to a slot that is empty
AddUnit(n) ==
  /\ ~UnitExistsAt(m_apUnits, n)
  /\ m_apUnits' = [m_apUnits EXCEPT ![n] = TRUE]
  /\ lDrivesAttached' = SetDriveMap(m_apUnits')
  /\ bridgeOp' = [bridgeOp EXCEPT !.op = "AddUnit", !.n = n]
  /\ UNCHANGED <<geo, sec, xfer, alRegisters, fiddleVars, driveVars, busVars, mainVars, histVars>>

\* CMBA::RemoveUnit; the callers disconnect only a unit that exists
RemoveUnit(n) ==
  /\ UnitExistsAt(m_apUnits, n)
  /\ m_apUnits' = [m_apUnits EXCEPT ![n] = FALSE]
  /\ lDrivesAttached' = SetDriveMap(m_apUnits')
  /\ bridgeOp' = [bridgeOp EXCEPT !.op = "RemoveUnit", !.n = n]
  /\ UNCHANGED <<geo, sec, xfer, alRegisters, fiddleVars, driveVars, busVars, mainVars, histVars>>

UnitsNext == \E n \in 0..(MAXUNIT - 1) : AddUnit(n) \/ RemoveUnit(n)

SpecUnits == UnitsInit /\ [][UnitsNext]_vars

-----------------------------------------------------------------------------
(* SpecWindow: bits of the registers of the bridge's window are set, cleared *)
(* and toggled under a mask.                                                 *)

WindowInit ==
  /\ \E w \in WindowWords :
       alRegisters = [u \in 0..(MAXUNIT - 1) |->
                        [regs |-> [r \in 0..31 |-> w], trace |-> <<>>]]
  /\ m_apUnits = [n \in 0..(MAXUNIT - 1) |-> FALSE]
  /\ lDrivesAttached = 0
  /\ bridgeOp = [op |-> "none", n |-> 0, u |-> 0, r |-> 0, m |-> 0, count |-> 0,
                 before |-> alRegisters]
  /\ GeoIdle
  /\ SecIdle
  /\ XferIdle
  /\ FiddleIdle
  /\ UnitInit
  /\ last = NoCommand
  /\ steps = 0
  /\ BusInit

\* the window after a call that made unit u's register file d, and the call
WindowDid(op, u, r, m, d) ==
  /\ bridgeOp.count < MaxWindowOps
  /\ alRegisters' = [alRegisters EXCEPT ![u] = [d EXCEPT !.trace = <<>>]]
  /\ bridgeOp' = [bridgeOp EXCEPT !.op = op, !.u = u, !.r = r, !.m = m,
                                  !.count = @ + 1, !.before = alRegisters]
  /\ UNCHANGED <<geo, sec, xfer, m_apUnits, lDrivesAttached,
                 fiddleVars, driveVars, busVars, mainVars, histVars>>

\* CDECUPE::SetBitMBR(nUnit, nRegister, wMask)
CallSetBitMBR(u, r, m) == WindowDid("SetBitMBR", u, r, m, SetBitMBR(alRegisters[u], r, m))

\* CDECUPE::ClearBitMBR(nUnit, nRegister, wMask)
CallClearBitMBR(u, r, m) == WindowDid("ClearBitMBR", u, r, m, ClearBitMBR(alRegisters[u], r, m))

\* CDECUPE::ToggleBitMBR(nUnit, nRegister, wMask)
CallToggleBitMBR(u, r, m) == WindowDid("ToggleBitMBR", u, r, m, ToggleBitMBR(alRegisters[u], r, m))

WindowNext ==
  \E u \in WindowUnits, r \in WindowRegisters, m \in WindowMasks :
    CallSetBitMBR(u, r, m) \/ CallClearBitMBR(u, r, m) \/ CallToggleBitMBR(u, r, m)

SpecWindow == WindowInit /\ [][WindowNext]_vars

-----------------------------------------------------------------------------
(* SpecSector: an online, writable disk whose host writes and reads sectors  *)
(* of the image at valid addresses.  A sector is 2 * SectorPairs halfwords   *)
(* long; the loops of the source treat every index alike.                    *)

\* the halfwords of a sector
SectorLength == 2 * SectorPairs

\* the words the host's data FIFO delivers (without the valid bit): bits 16
\* and 17 tell the two encodings apart, bit 18 is beyond a halfword
HostWords == <<0, 43690, 196613, 262143, 262149>>

\* the sectors the host sends: the words above, from the k-th on
HostSector(k) ==
  [i \in 1..SectorLength |-> HostWords[((k + i) % Len(HostWords)) + 1]]

\* CDECUPE::ReadData, the words: plData[i] = MASK18(data)
ReadDataWords(alFIFO) == [i \in 1..Len(alFIFO) |-> MASK18(alFIFO[i])]

\* CDECUPE::WriteData, the words: lDataFIFO = MASK18(plData[i])
WriteDataWords(plData) == [i \in 1..Len(plData) |-> MASK18(plData[i])]

\* the 36 bit words with their halves exchanged
WriteSector18Swapped(alData18) ==
  [i \in 1..(Len(alData18) \div 2) |-> MK36(alData18[2 * i], alData18[2 * i - 1])]

\* CDiskDrive::WriteSector18: aqData[i] = MK36(alData18[2*i], alData18[2*i+1])
WriteSector18(alData18) ==
  [i \in 1..(Len(alData18) \div 2) |-> MK36(alData18[2 * i - 1], alData18[2 * i])]

\* CDiskDrive::ReadSector18: alData18[2*i] = LH36(aqData[i]),
\* alData18[2*i+1] = RH36(aqData[i])
ReadSector18(aqData) ==
  [i \in 1..(2 * Len(aqData)) |->
     IF i % 2 = 1 THEN LH36(aqData[(i + 1) \div 2]) ELSE RH36(aqData[i \div 2])]

\* CDiskDrive::WriteSector16: awData[i] = LOWORD(alData16[i])
WriteSector16(alData16) == [i \in 1..Len(alData16) |-> LOWORD(alData16[i])]

\* CDiskDrive::ReadSector16: alData16[i] = MKLONG(0, awData[i])
ReadSector16(awData) == [i \in 1..Len(awData) |-> MKLONG(0, awData[i])]

\* a sector of an image file that was never written: zeros
BlankSector(f18Bit) ==
  IF f18Bit THEN [i \in 1..SectorPairs |-> MK36(0, 0)]
  ELSE [i \in 1..SectorLength |-> 0]

SectorInit ==
  /\ \E f18Bit \in BOOLEAN :
       sec = [f18Bit |-> f18Bit, op |-> "none", lLBA |-> 0, count |-> 0,
              image |-> [l \in 1..DiskImageSectors |-> BlankSector(f18Bit)],
              before |-> [l \in 1..DiskImageSectors |-> BlankSector(f18Bit)],
              written |-> [l \in 1..DiskImageSectors |-> <<>>],
              fifoIn |-> <<>>, fifoOut |-> <<>>]
  /\ GeoIdle
  /\ XferIdle
  /\ BridgeIdle
  /\ FiddleIdle
  /\ UnitInit
  /\ last = NoCommand
  /\ steps = 0
  /\ BusInit

\* CDiskDrive::DoWrite of sector lLBA, the host sending alFIFO: ReadData,
\* then WriteSector18 or WriteSector16
SectorWrite(lLBA, alFIFO) ==
  /\ sec.op # "off"
  /\ sec.count < MaxSectorOps
  /\ LET alSector == ReadDataWords(alFIFO)
         stored == IF sec.f18Bit THEN WriteSector18(alSector)
                   ELSE WriteSector16(alSector)
     IN  sec' = [sec EXCEPT !.op = "write", !.lLBA = lLBA, !.count = @ + 1,
                            !.before = sec.image,
                            !.image[lLBA + 1] = stored,
                            !.written[lLBA + 1] = alFIFO,
                            !.fifoIn = alFIFO, !.fifoOut = <<>>]
  /\ UNCHANGED <<geo, xfer, bridgeVars, fiddleVars, driveVars, busVars, mainVars, histVars>>

\* CDiskDrive::DoRead of sector lLBA: ReadSector18 or ReadSector16, then
\* WriteData
SectorRead(lLBA) ==
  /\ sec.op # "off"
  /\ sec.count < MaxSectorOps
  /\ LET alSector == IF sec.f18Bit THEN ReadSector18(sec.image[lLBA + 1])
                     ELSE ReadSector16(sec.image[lLBA + 1])
     IN  sec' = [sec EXCEPT !.op = "read", !.lLBA = lLBA, !.count = @ + 1,
                            !.before = sec.image,
                            !.fifoIn = <<>>, !.fifoOut = WriteDataWords(alSector)]
  /\ UNCHANGED <<geo, xfer, bridgeVars, fiddleVars, driveVars, busVars, mainVars, histVars>>

SectorNext ==
  \E lLBA \in 0..(DiskImageSectors - 1) :
    \/ \E k \in 0..(Len(HostWords) - 1) : SectorWrite(lLBA, HostSector(k))
    \/ SectorRead(lLBA)

SpecSector == SectorInit /\ [][SectorNext]_vars

-----------------------------------------------------------------------------
(* The data FIFO of the bridge, word by word: CDECUPE::ReadData, WriteData  *)
(* and EmptyTransfer, one step for every access of the window that the     *)
(* bridge can answer.  xfer.window lists the accesses of the window in      *)
(* order: SEND (lSendCount written), FIFORD (lDataFIFO read, b = 1 for a    *)
(* valid word), FIFOWR (lDataFIFO written), STATUS (lFIFOstatus read).      *)

MaxWords == 2
MaxDataCalls == 2

\* the retry bound of the data FIFO (77777 in DECUPE.hpp), scaled down
DATA_TIMEOUT == 2

FORCE_EXCEPTION == 16777216

\* what a read of lDataFIFO can return: the VALID bit and the low 31 bits
FIFOWords ==
  {[valid |-> TRUE, data |-> 5], [valid |-> TRUE, data |-> 262149],
   [valid |-> FALSE, data |-> 0], [valid |-> FALSE, data |-> 7]}

\* the halfword buffers handed to WriteData
DataBuffers(n) == [1..n -> {5, 262149}]

\* a buffer nothing was stored into yet
Untouched(n) == [j \in 1..n |-> -1]

Window(x, e) == [x EXCEPT !.window = Append(@, e)]

Return(x, ret) == [x EXCEPT !.pc = "done", !.ret = ret]

NewCall(x, fn, isTape, offline, clData, fException, plData) ==
  [pc |-> "done", fn |-> fn, isTape |-> isTape, offline |-> offline,
   clData |-> clData, fException |-> fException, plData |-> plData, i |-> 0,
   tmo |-> 0, ret |-> "none", window |-> <<>>, calls |-> x.calls + 1]

\* CDECUPE::ReadData up to its loop: the offline test, the assertion, and on
\* a tape bridge lSendCount = clData
ReadDataCall(x, isTape, offline, clData) ==
  LET c == NewCall(x, "ReadData", isTape, offline, clData, FALSE,
                   Untouched(clData))
  IN  IF offline THEN Return(c, "false")
      ELSE IF clData = 0 THEN Return(c, "assert")
      ELSE LET c1 == IF isTape THEN Window(c, Ev("SEND", clData, 0)) ELSE c
           IN  [c1 EXCEPT !.pc = "read"]

\* a read that stores the word as the FIFO delivered it
ReadDataPollUnmasked(x, word) ==
  LET x1 == Window(x, Ev("FIFORD", word.data, IF word.valid THEN 1 ELSE 0))
  IN  IF word.valid
        THEN LET x2 == [x1 EXCEPT !.plData[x.i + 1] = word.data,
                                  !.i = @ + 1, !.tmo = 0]
             IN  IF x2.i < x2.clData THEN x2 ELSE Return(x2, "true")
        ELSE IF x.tmo >= DATA_TIMEOUT THEN Return(x1, "false")
             ELSE [x1 EXCEPT !.tmo = @ + 1]

\* CDECUPE::ReadData, one turn of the inner loop: data = lDataFIFO; a valid
\* word is stored as MASK18(data) and ends the inner loop; an invalid one
\* ends the call when tmo >= DATA_TIMEOUT and counts otherwise
ReadDataPoll(x, word) ==
  LET x1 == Window(x, Ev("FIFORD", word.data, IF word.valid THEN 1 ELSE 0))
  IN  IF word.valid
        THEN LET x2 == [x1 EXCEPT !.plData[x.i + 1] = MASK18(word.data),
                                  !.i = @ + 1, !.tmo = 0]
             IN  IF x2.i < x2.clData THEN x2 ELSE Return(x2, "true")
        ELSE IF x.tmo >= DATA_TIMEOUT THEN Return(x1, "false")
             ELSE [x1 EXCEPT !.tmo = @ + 1]

\* a WriteData that leaves the exception bit out of the count
WriteDataCallUnmarked(x, isTape, clData, fException, plData) ==
  LET c == NewCall(x, "WriteData", isTape, FALSE, clData, fException, plData)
  IN  IF clData = 0 THEN Return(c, "assert")
      ELSE LET c1 == IF isTape THEN Window(c, Ev("SEND", clData, 0)) ELSE c
           IN  [c1 EXCEPT !.pc = "write"]

\* CDECUPE::WriteData up to its loop: the assertion, and on a tape bridge
\* lSendCount = clData | (fException ? FORCE_EXCEPTION : 0)
WriteDataCall(x, isTape, clData, fException, plData) ==
  LET c == NewCall(x, "WriteData", isTape, FALSE, clData, fException, plData)
      lSendCount == clData + (IF fException THEN FORCE_EXCEPTION ELSE 0)
  IN  IF clData = 0 THEN Return(c, "assert")
      ELSE LET c1 == IF isTape THEN Window(c, Ev("SEND", lSendCount, 0)) ELSE c
           IN  [c1 EXCEPT !.pc = "write"]

\* lDataFIFO = MASK18(plData[i]), and the loop's ++i and test
PushWord(x) ==
  LET x1 == [Window(x, Ev("FIFOWR", MASK18(x.plData[x.i + 1]), 0))
               EXCEPT !.pc = "write", !.i = @ + 1, !.tmo = 0]
  IN  IF x1.i < x1.clData THEN x1 ELSE Return(x1, "true")

\* CDECUPE::WriteData, one turn of the loop over the words: on a tape bridge
\* the test of FROMPC_ALMOST_FULL, that sends the call waiting; the word
\* otherwise
WriteDataWord(x, almostFull) ==
  IF x.isTape
    THEN LET x1 == Window(x, Ev("STATUS", IF almostFull THEN 1 ELSE 0, 0))
         IN  IF almostFull THEN [x1 EXCEPT !.pc = "spin", !.tmo = 0]
             ELSE PushWord(x1)
    ELSE PushWord(x)

\* CDECUPE::WriteData, one turn of the wait for FROMPC_ALMOST_EMPTY
WriteDataWait(x, almostEmpty) ==
  LET x1 == Window(x, Ev("STATUS", IF almostEmpty THEN 1 ELSE 0, 0))
  IN  IF almostEmpty THEN PushWord(x1)
      ELSE IF x.tmo >= DATA_TIMEOUT THEN Return(x1, "false")
      ELSE [x1 EXCEPT !.tmo = @ + 1]

\* CDECUPE::EmptyTransfer: lSendCount = fException ? FORCE_EXCEPTION : 0,
\* then lDataFIFO = 0
EmptyTransferCall(x, fException) ==
  LET c == NewCall(x, "EmptyTransfer", TRUE, FALSE, 0, fException, <<>>)
      lSendCount == IF fException THEN FORCE_EXCEPTION ELSE 0
  IN  Return(Window(Window(c, Ev("SEND", lSendCount, 0)), Ev("FIFOWR", 0, 0)),
             "void")

DataInit ==
  /\ xfer = [pc |-> "done", fn |-> "none", isTape |-> FALSE, offline |-> FALSE,
             clData |-> 0, fException |-> FALSE, plData |-> <<>>, i |-> 0,
             tmo |-> 0, ret |-> "none", window |-> <<>>, calls |-> 0]
  /\ GeoIdle
  /\ SecIdle
  /\ BridgeIdle
  /\ FiddleIdle
  /\ UnitInit
  /\ last = NoCommand
  /\ steps = 0
  /\ BusInit

DataRest ==
  UNCHANGED <<geo, sec, bridgeVars, fiddleVars, driveVars, busVars, mainVars,
              histVars>>

CanCall == xfer.pc = "done" /\ xfer.calls < MaxDataCalls

DataReadData(isTape, offline, clData) ==
  /\ CanCall
  /\ xfer' = ReadDataCall(xfer, isTape, offline, clData)
  /\ DataRest

DataReadPoll(word) ==
  /\ xfer.pc = "read"
  /\ xfer' = ReadDataPoll(xfer, word)
  /\ DataRest

DataWriteData(isTape, clData, fException, plData) ==
  /\ CanCall
  /\ xfer' = WriteDataCall(xfer, isTape, clData, fException, plData)
  /\ DataRest

DataWriteWord(almostFull) ==
  /\ xfer.pc = "write"
  /\ xfer' = WriteDataWord(xfer, almostFull)
  /\ DataRest

DataWriteWait(almostEmpty) ==
  /\ xfer.pc = "spin"
  /\ xfer' = WriteDataWait(xfer, almostEmpty)
  /\ DataRest

DataEmptyTransfer(fException) ==
  /\ CanCall
  /\ xfer' = EmptyTransferCall(xfer, fException)
  /\ DataRest

\* the steps of the call under way
DataStep ==
  \/ \E word \in FIFOWords : DataReadPoll(word)
  \/ \E full \in BOOLEAN : DataWriteWord(full)
  \/ \E empty \in BOOLEAN : DataWriteWait(empty)

DataNext ==
  \/ \E isTape \in BOOLEAN, offline \in BOOLEAN, clData \in 0..MaxWords :
       DataReadData(isTape, offline, clData)
  \/ \E isTape \in BOOLEAN, fException \in BOOLEAN, clData \in 0..MaxWords :
       \E plData \in DataBuffers(clData) :
         DataWriteData(isTape, clData, fException, plData)
  \/ \E fException \in BOOLEAN : DataEmptyTransfer(fException)
  \/ DataStep

SpecData == DataInit /\ [][DataNext]_vars

\* the thread inside ReadData or WriteData keeps running
SpecDataFair == SpecData /\ WF_vars(DataStep)

-----------------------------------------------------------------------------
(* The fiddler harness: a record of cbIn bytes sits in m_abBuffer, whose    *)
(* MAXSKIP bytes of slack hold whatever an earlier record left there; it is *)
(* fiddled to halfwords as DoRead does and fiddled back as DoWrite does.    *)

FiddleInit ==
  /\ tFormat \in {TMAM_10_COMPATIBLE, TMAM_10_CORE_DUMP}
  /\ tReverse \in BOOLEAN
  /\ tLength \in 1..MaxLen
  /\ \E rec \in [0..(MaxLen - 1) -> ByteVals], stale \in ByteVals :
       /\ \A i \in tLength..(MaxLen - 1) : rec[i] = stale
       /\ abIn = [i \in 0..(ByteBufferLen - 1) |->
                    IF i < tLength THEN rec[i] ELSE stale]
  /\ alOut = [hw |-> <<>>, fault |-> FALSE, top |-> 0]
  /\ abOut = [bytes |-> <<>>, fault |-> FALSE]
  /\ fpc = "in"
  /\ UnitInit
  /\ last = NoCommand
  /\ steps = 0
  /\ BusInit
  /\ PureIdle

\* DoRead: clRecord = Fiddle8to18(bFormat, m_abBuffer, m_alBuffer, cbRecord, fReverse)
FiddleRead ==
  /\ fpc = "in"
  /\ alOut' = Fiddle8to18(tFormat, abIn, ByteBufferLen, HalfwordBufferLen,
                          tLength, tReverse)
  /\ fpc' = "fiddled"
  /\ UNCHANGED <<tFormat, tReverse, tLength, abIn, abOut>>
  /\ UNCHANGED <<pureVars, driveVars, busVars, mainVars, histVars>>

\* DoWrite: cbRecord = Fiddle18to8(bFormat, m_alBuffer, m_abBuffer, clRecord)
FiddleWrite ==
  /\ fpc = "fiddled"
  /\ ~alOut.fault
  /\ abOut' = Fiddle18to8(tFormat, alOut.hw, Len(alOut.hw))
  /\ fpc' = "back"
  /\ UNCHANGED <<tFormat, tReverse, tLength, abIn, alOut>>
  /\ UNCHANGED <<pureVars, driveVars, busVars, mainVars, histVars>>

FiddleNext == FiddleRead \/ FiddleWrite

SpecFiddle == FiddleInit /\ [][FiddleNext]_vars

-----------------------------------------------------------------------------
(* Properties of the bit fiddler *)

\* C9: for a record whose length is a positive multiple of 4, fiddling it
\* forward in 10-compatible format and fiddling the halfwords back returns
\* the record's length and every byte of the record unchanged.
RoundTripCompatible ==
  (fpc = "back" /\ tFormat = TMAM_10_COMPATIBLE /\ ~tReverse /\ tLength % 4 = 0)
    => /\ ~alOut.fault
       /\ ~abOut.fault
       /\ Len(abOut.bytes) = tLength
       /\ \A i \in 0..(tLength - 1) : abOut.bytes[i + 1] = abIn[i]

\* a two word record with differing bytes has made the round trip
RoundTripCompatibleSeen ==
  /\ fpc = "back" /\ tFormat = TMAM_10_COMPATIBLE /\ ~tReverse /\ tLength = 8
  /\ abIn[2] # abIn[3] /\ abIn[2] # abIn[6]
  /\ Len(abOut.bytes) = 8

\* C10: for a record whose length is a positive multiple of 5, the core dump
\* round trip returns the record's length, the first four bytes of every
\* group unchanged, and of every fifth byte the low four bits only.
RoundTripCoreDump ==
  (fpc = "back" /\ tFormat = TMAM_10_CORE_DUMP /\ ~tReverse /\ tLength % 5 = 0)
    => /\ ~alOut.fault
       /\ ~abOut.fault
       /\ Len(abOut.bytes) = tLength
       /\ \A i \in 0..(tLength - 1) :
            abOut.bytes[i + 1] = IF i % 5 = 4 THEN abIn[i] % 16 ELSE abIn[i]

\* a two word core dump record has made the round trip and lost the high
\* bits of a fifth byte
RoundTripCoreDumpSeen ==
  /\ fpc = "back" /\ tFormat = TMAM_10_CORE_DUMP /\ ~tReverse /\ tLength = 10
  /\ abIn[4] >= 16 /\ abOut.bytes[5] = abIn[4] % 16
  /\ abIn[3] # abIn[8] /\ Len(abOut.bytes) = 10

\* the 36 bit words of a halfword sequence: word j is the pair 2j-1, 2j, left
\* half first, or right half first for the output of a reverse read
WordsOf(hw, rightFirst) ==
  [j \in 1..(Len(hw) \div 2) |->
     IF rightFirst THEN MK36(hw[2 * j], hw[2 * j - 1])
     ELSE MK36(hw[2 * j - 1], hw[2 * j])]

\* C11: for a record whose length is a positive multiple of the group size,
\* fiddling it in reverse gives the 36 bit words of the forward fiddle in
\* reverse order, and the reverse walk starts at the record's last group, so
\* that it reads no byte beyond the record.
ReverseMirrorsForward ==
  (fpc = "fiddled" /\ tReverse /\ tLength % GroupSize(tFormat) = 0) =>
    LET fwd == WordsOf(Fiddle8to18(tFormat, abIn, ByteBufferLen, HalfwordBufferLen,
                                   tLength, FALSE).hw, FALSE)
        rev == WordsOf(alOut.hw, TRUE)
    IN  /\ ~alOut.fault
        /\ Len(rev) = Len(fwd)
        /\ \A j \in 1..Len(rev) : rev[j] = fwd[Len(fwd) + 1 - j]
        /\ StartIndex(tFormat, tLength, TRUE) = tLength - GroupSize(tFormat)

-----------------------------------------------------------------------------
(* Properties of the disk geometry (SpecGeometry) *)

\* C12: for every disk type and both pack formats, CHStoLBA takes a valid
\* triple to a sector number of the pack from which LBAtoCHS gives the triple
\* back, LBAtoCHS takes a sector number of the pack to a valid triple from
\* which CHStoLBA gives the number back, and CHStoLBA takes a triple with a
\* coordinate out of range to the invalid sector.
GeometryBijection ==
  /\ (geo.start = "chs" /\ geo.stage >= 1) =>
       IF IsValidCHS(geo.t, geo.c0, geo.h0, geo.s0, geo.f18Bit)
         THEN 0 <= geo.l /\ geo.l < TotalSectors(geo.t, geo.f18Bit)
         ELSE geo.l = INVALID_SECTOR
  /\ (geo.start = "chs" /\ geo.stage = 2) =>
       geo.c = geo.c0 /\ geo.h = geo.h0 /\ geo.s = geo.s0
  /\ (geo.start = "lba" /\ geo.stage >= 1) =>
       IsValidCHS(geo.t, geo.c, geo.h, geo.s, geo.f18Bit)
  /\ (geo.start = "lba" /\ geo.stage = 2) => geo.l = geo.l0

\* the last sector of the last track of an 18 bit RP07 has gone to the last
\* sector number of the pack and come back
GeometryBijectionSeen ==
  /\ geo.start = "chs" /\ geo.stage = 2 /\ geo.t.name = "RP07" /\ geo.f18Bit
  /\ geo.c0 = 631 /\ geo.h0 = 31 /\ geo.s0 = 42
  /\ geo.l = TotalSectors(geo.t, TRUE) - 1
  /\ geo.c = 631 /\ geo.h = 31 /\ geo.s = 42

-----------------------------------------------------------------------------
(* Properties of the unit slots and of the register window *)

\* bit i of the word w
BitOf(w, i) == (w \div (2 ^ i)) % 2

\* C13: after any AddUnit and RemoveUnit calls on a bus, bit i of the drive map
\* written last to the bridge is set exactly when unit slot i is occupied, the
\* number of set bits is UnitsConnected(), and connecting one unit to an empty
\* bus leaves exactly that unit's bit set.
DriveMapMatchesUnits ==
  bridgeOp.op \in {"AddUnit", "RemoveUnit"} =>
    /\ \A i \in 0..7 : (BitOf(lDrivesAttached, i) = 1) <=> m_apUnits[i]
    /\ lDrivesAttached < 256
    /\ Cardinality({i \in 0..7 : BitOf(lDrivesAttached, i) = 1}) = UnitsConnected(m_apUnits)
    /\ UnitsConnected(m_apUnits) = Cardinality({i \in 0..7 : m_apUnits[i]})
    /\ (bridgeOp.op = "AddUnit" /\ UnitsConnected(m_apUnits) = 1) =>
         lDrivesAttached = 2 ^ bridgeOp.n

\* units 1, 4 and 7 are connected after unit 2 has been disconnected, and the
\* map is 0x92
DriveMapMatchesUnitsSeen ==
  /\ bridgeOp.op = "RemoveUnit" /\ bridgeOp.n = 2
  /\ m_apUnits[1] /\ m_apUnits[4] /\ m_apUnits[7]
  /\ UnitsConnected(m_apUnits) = 3
  /\ lDrivesAttached = 146

\* C14: SetBitMBR, ClearBitMBR and ToggleBitMBR with mask m set, clear and
\* invert, in the low 16 bits of the register addressed, the bits that m
\* selects; they leave every other bit of it and every other register as it
\* was.
BitsUnderMask ==
  bridgeOp.op \in {"SetBitMBR", "ClearBitMBR", "ToggleBitMBR"} =>
    LET old == bridgeOp.before[bridgeOp.u].regs[bridgeOp.r]
        new == alRegisters[bridgeOp.u].regs[bridgeOp.r]
    IN  /\ \A i \in 0..15 :
             BitOf(new, i) =
               IF BitOf(bridgeOp.m, i) = 0 THEN BitOf(old, i)
               ELSE CASE bridgeOp.op = "SetBitMBR" -> 1
                      [] bridgeOp.op = "ClearBitMBR" -> 0
                      [] bridgeOp.op = "ToggleBitMBR" -> 1 - BitOf(old, i)
        /\ \A u \in 0..7, r \in 0..31 :
             (u # bridgeOp.u \/ r # bridgeOp.r) =>
               alRegisters[u].regs[r] = bridgeOp.before[u].regs[r]

\* register 31 of unit 7 held 0x5A5A, had 0xA5A5 toggled and holds 0xFFFF,
\* after an earlier call
BitsUnderMaskSeen ==
  /\ bridgeOp.op = "ToggleBitMBR" /\ bridgeOp.u = 7 /\ bridgeOp.r = 31
  /\ bridgeOp.m = 42405 /\ bridgeOp.count = 2
  /\ bridgeOp.before[7].regs[31] = 23130
  /\ alRegisters[7].regs[31] = 65535

-----------------------------------------------------------------------------
(* Properties of the command handlers (SpecDrive) *)

\* the trace of the host command dispatched last
LastTrace == unit[last.b].trace

\* where in a trace register r was written
WritesOf(t, r) == {i \in 1..Len(t) : t[i].op = "MBR" /\ t[i].a = r}

\* where in a trace the bridge's send count or data FIFO was accessed
BridgeData(t) == {i \in 1..Len(t) : t[i].op \in {"SEND", "FIFOWR", "FIFORD"}}

\* where in a trace the image file was written or truncated
ImageWrites(t) ==
  {i \in 1..Len(t) : t[i].op \in {"WriteRecord", "WriteMark", "Truncate", "WriteSector"}}

DataInterruptCode(d) == BitAnd(d.regs[TMDIR], TMDIR_M_IC)

MotionInterruptCode(d) == BitAnd(d.regs[TMMIR], TMMIR_M_IC)

\* C2: every data transfer command the tape drive receives through TMDCR,
\* whatever its outcome, writes TMDIR exactly once, and does so before its
\* first access to the bridge's send count register or data FIFO.
StatusBeforeData ==
  (last.kind = "transfer" /\ last.handled) =>
    /\ Cardinality(WritesOf(LastTrace, TMDIR)) = 1
    /\ \A i \in WritesOf(LastTrace, TMDIR), j \in BridgeData(LastTrace) : i < j

\* a READ FORWARD has sent the two halfwords of a four byte record with DONE
StatusBeforeDataSeen ==
  /\ last.kind = "transfer" /\ last.handled /\ last.fn = TMCMD_RD_FWD
  /\ DataInterruptCode(unit["A"]) = TMIC_DONE
  /\ \E j \in BridgeData(LastTrace) :
       LastTrace[j].op = "FIFOWR" /\ LastTrace[j].a = 2

\* C3: a motion command received through TMMCRn ends with the GO bit of that
\* TMMCRn clear, whatever the function, the count and the state of the drive;
\* a data transfer command received through TMDCR does not write TMDCR.
MotionClearsGO ==
  /\ (last.kind = "motion" /\ last.handled) => unit["A"].regs[last.reg] % 2 = 0
  /\ (last.kind = "transfer" /\ last.handled) => WritesOf(LastTrace, TMDCR) = {}

\* a REWIND sent to slave 2 with GO set has been refused and GO is clear
MotionClearsGOSeen ==
  /\ last.kind = "motion" /\ last.handled
  /\ last.reg = TMMCR0 + 2 /\ last.fn = TMCMD_REWIND
  /\ last.before.regs[last.reg] % 2 = 1
  /\ unit["A"].regs[last.reg] % 2 = 0
  /\ MotionInterruptCode(unit["A"]) = TMIC_NOT_AVAIL

\* the host command dispatched last is a write, and the drive's image was
\* attached read only when it arrived
WriteToReadOnly ==
  /\ last.before.exists /\ last.before.attached /\ last.before.imageRO
  /\ \/ last.kind = "disk" /\ last.fn \in {RPCMD_WRITE, RPCMD_WHEADER}
     \/ last.kind = "transfer" /\ last.fn \in {TMCMD_WRT_PE, TMCMD_WRT_GCR}
     \/ last.kind = "motion" /\ last.fn \in {TMCMD_WTM_PE, TMCMD_WTM_GCR,
                                            TMCMD_ERG_PE, TMCMD_ERG_GCR, TMCMD_DSE}

ImageUntouched ==
  /\ unit[last.b].image = last.before.image
  /\ ImageWrites(LastTrace) = {}

\* the TMTCR setups DoTransferCommand lets through
SetupAccepted(nTCR) ==
  /\ nTCR % 4 = 0
  /\ (nTCR \div 4096) % 8 \in {TMAM_10_COMPATIBLE, TMAM_10_CORE_DUMP}
  /\ (nTCR \div 256) % 16 = 0
  /\ (nTCR \div 4) % 64 <= 1

\* C8 as stated: a write to a drive attached read only leaves the image as it
\* was; the disk is offline afterwards; the tape reports FILE_PROTECT.
ReadOnlyWriteReportsProtect ==
  WriteToReadOnly =>
    /\ ImageUntouched
    /\ last.kind = "disk" => ~IsOnline(unit["B"])
    /\ last.kind = "transfer" => DataInterruptCode(unit["A"]) = TMIC_FILE_PROTECT
    /\ last.kind = "motion" => MotionInterruptCode(unit["A"]) = TMIC_FILE_PROTECT

\* C8: a write to a drive attached read only leaves the content and the length
\* of the image as they were and calls no image write or truncate; the disk is
\* offline afterwards; the tape reports FILE_PROTECT when the transport is
\* online and the command is one the formatter takes, OFFLINE when the
\* transport is offline, TM_FAULT_A for a transfer whose TMTCR setup is refused
\* and NOT_AVAIL for a motion command to slave 1, 2 or 3.
ReadOnlyWriteLeavesImage ==
  WriteToReadOnly =>
    /\ ImageUntouched
    /\ last.kind = "disk" => ~IsOnline(unit["B"])
    /\ last.kind = "transfer" =>
         DataInterruptCode(unit["A"]) =
           IF ~SetupAccepted(last.before.regs[TMTCR]) THEN TMIC_TM_FAULT_A
           ELSE IF ~IsOnline(last.before) THEN TMIC_OFFLINE
           ELSE TMIC_FILE_PROTECT
    /\ last.kind = "motion" =>
         MotionInterruptCode(unit["A"]) =
           IF last.reg # TMMCR0 THEN TMIC_NOT_AVAIL
           ELSE IF ~IsOnline(last.before) THEN TMIC_OFFLINE
           ELSE TMIC_FILE_PROTECT

\* a WRITE to an online, write protected tape has been refused
ReadOnlyWriteLeavesImageSeen ==
  /\ WriteToReadOnly /\ last.kind = "transfer" /\ last.fn = TMCMD_WRT_PE
  /\ IsOnline(last.before) /\ SetupAccepted(last.before.regs[TMTCR])
  /\ DataInterruptCode(unit["A"]) = TMIC_FILE_PROTECT
  /\ unit["A"].image = last.before.image

\* a WRITE has taken a write protected disk offline
ReadOnlyDiskWriteSeen ==
  /\ WriteToReadOnly /\ last.kind = "disk" /\ last.handled
  /\ IsOnline(last.before) /\ ~IsOnline(unit["B"])

\* C15: CMBA::DoCommand, for a valid descriptor addressed to unit u: if slot u
\* is empty no handler runs and no register, FIFO or image is touched; on the
\* tape bus the unit's handler runs whether or not the unit is online; on the
\* disk bus it runs only if the unit is online, and the command is dropped
\* with no effect otherwise.
DispatchByFamily ==
  last.kind # "none" =>
    LET d0 == last.before
        d == unit[last.b]
    IN  IF ~(ExtractUnit(last.lCommand) = 0 /\ d0.exists) THEN d = d0 /\ d.trace = <<>>
        ELSE IF BusIsTape(last.b)
          THEN \E env \in MotionEnvs \cup TransferEnvs :
                 d = TapeDoCommand(d0, last.lCommand, env)
        ELSE IF IsOnline(d0)
          THEN \E env \in TransferEnvs : d = DiskDoCommand(d0, last.lCommand, env)
        ELSE d = d0 /\ d.trace = <<>>

\* the handler of a tape unit that is offline has run and has written to the
\* bridge
DispatchByFamilySeen ==
  /\ last.kind = "motion" /\ last.b = "A"
  /\ last.before.exists /\ ~IsOnline(last.before)
  /\ unit["A"] = TapeDoCommand(last.before, last.lCommand, EnvOK)
  /\ unit["A"].trace # <<>>
  /\ unit["A"] # last.before

\* the length of the record the handler that ran last has read from the image,
\* 0 if it has read none
RecordRead(t) ==
  IF \E i \in 1..Len(t) : t[i].op = "ReadForwardRecord" /\ t[i].a > 0
    THEN t[CHOOSE i \in 1..Len(t) : t[i].op = "ReadForwardRecord" /\ t[i].a > 0].a
    ELSE 0

\* the byte count the host asked for in TMBCR, 0 standing for 65536
RequestedCount(d) == IF d.regs[TMBCR] = 0 THEN 65536 ELSE d.regs[TMBCR]

\* a tape read that the formatter has accepted for a drive that is online
ReadAccepted ==
  /\ last.kind = "transfer" /\ last.handled
  /\ last.fn \in {TMCMD_RD_FWD, TMCMD_RD_REV}
  /\ SetupAccepted(last.before.regs[TMTCR])
  /\ IsOnline(last.before)

\* C16: a tape read of a record of a > 0 bytes, asked for with byte count r,
\* clears the record count field of TMTCR, writes a to TMBCR, sets TMDIR to
\* DONE if a = r, to SHORT RECORD if a < r and to LONG RECORD if a > r, and
\* then sends the fiddled halfwords, two for every group of the format begun,
\* with the exception flag set exactly when a # r.
ReadDeliversRecord ==
  (ReadAccepted /\ RecordRead(LastTrace) > 0) =>
    LET a == RecordRead(LastTrace)
        r == RequestedCount(last.before)
        g == GroupSize((last.before.regs[TMTCR] \div 4096) % 8)
        d == unit["A"]
        t == LastTrace
    IN  /\ BitAnd(d.regs[TMTCR], TMTCR_M_REC_COUNT) = 0
        /\ d.regs[TMBCR] = a
        /\ DataInterruptCode(d) = IF a = r THEN TMIC_DONE
                                  ELSE IF a < r THEN TMIC_SHORT_RECORD
                                  ELSE TMIC_LONG_RECORD
        /\ ~d.crashed
        /\ \E i \in 1..Len(t) :
             /\ t[i] = Ev("SEND", 2 * ((a + g - 1) \div g), IF a = r THEN 0 ELSE 1)
             /\ \A j \in WritesOf(t, TMTCR) \cup WritesOf(t, TMBCR) \cup WritesOf(t, TMDIR) :
                  j < i

\* the accesses of a trace to the bridge's send count and data FIFO, in order
DataAccesses(t) ==
  LET IsData(e) == e.op \in {"SEND", "FIFOWR", "FIFORD"}
  IN  SelectSeq(t, IsData)

\* where in a trace a record was asked of the image file
ImageReads(t) == {i \in 1..Len(t) : t[i].op = "ReadForwardRecord"}

\* C17: a tape read that delivers no record ends with an empty transfer that
\* carries the exception flag and with the matching code in TMDIR: a READ
\* REVERSE at the beginning of the tape gives BOT and reads nothing from the
\* image; a tape mark gives TAPE MARK, the end of the tape EOT and any other
\* read error UNREADABLE, each with 0 written to TMBCR; no halfword of record
\* data is sent.
ReadFailsEmpty ==
  (ReadAccepted /\ RecordRead(LastTrace) = 0) =>
    LET d0 == last.before
        d == unit["A"]
        t == LastTrace
    IN  /\ DataAccesses(t) = <<Ev("SEND", 0, 1), Ev("FIFOWR", 1, 0)>>
        /\ IF last.fn = TMCMD_RD_REV /\ IsBOT(d0)
             THEN /\ ImageReads(t) = {}
                  /\ d.pos = d0.pos
                  /\ DataInterruptCode(d) = TMIC_BOT
             ELSE /\ Cardinality(ImageReads(t)) = 1
                  /\ WritesOf(t, TMBCR) # {}
                  /\ d.regs[TMBCR] = 0
                  /\ LET e == t[CHOOSE i \in ImageReads(t) : TRUE]
                     IN  DataInterruptCode(d) =
                           CASE e.b = 1 -> TMIC_TAPE_MARK
                             [] e.b = 2 -> TMIC_EOT
                             [] OTHER -> TMIC_UNREADABLE

\* a READ FORWARD has run into the tape mark behind the second record
ReadFailsEmptySeen ==
  /\ ReadAccepted /\ last.fn = TMCMD_RD_FWD
  /\ last.before.pos = 2 /\ last.before.image = <<4, 5, 0, 5>>
  /\ unit["A"].pos = 3
  /\ DataInterruptCode(unit["A"]) = TMIC_TAPE_MARK
  /\ unit["A"].regs[TMBCR] = 0
  /\ DataAccesses(LastTrace) = <<Ev("SEND", 0, 1), Ev("FIFOWR", 1, 0)>>

\* a SPACE command for slave 0 that has found the transport online
SpaceAccepted ==
  /\ last.kind = "motion" /\ last.handled /\ last.reg = TMMCR0
  /\ last.fn \in {TMCMD_SP_FWD_REC, TMCMD_SP_REV_REC,
                  TMCMD_SP_FWD_FILE, TMCMD_SP_REV_FILE}
  /\ IsOnline(last.before)

\* the repeat count the host wrote to the count field of TMMCR0, 0 standing
\* for 1
RepeatCount(d) == IF HIBYTE(d.regs[TMMCR0]) = 0 THEN 1 ELSE HIBYTE(d.regs[TMMCR0])

\* the items of the image between the head positions p and q
ItemsBetween(image, p, q) ==
  IF p <= q THEN SubSeq(image, p + 1, q) ELSE SubSeq(image, q + 1, p)

\* how many of the items are tape marks
MarksIn(items) == Cardinality({i \in 1..Len(items) : items[i] = 0})

\* C18: a SPACE FORWARD/REVERSE RECORD/FILE command for slave 0 of an online
\* transport, with repeat count n (0 standing for 1), leaves in the count
\* field of TMMCR0 the count of the skips not completed: n less the records
\* passed when spacing records (a tape mark that stops the command is passed
\* but is no completed skip), n less the tape marks passed when spacing files.
\* TMMIR holds DONE exactly when that field is 0; otherwise TAPE MARK with the
\* head just past a tape mark, EOT at the end of the tape going forward, BOT
\* at its beginning going backward, or BAD TAPE.
SpaceLeavesRemainder ==
  SpaceAccepted =>
    LET d0 == last.before
        d == unit["A"]
        n == RepeatCount(d0)
        fReverse == last.fn \in {TMCMD_SP_REV_REC, TMCMD_SP_REV_FILE}
        fFiles == last.fn \in {TMCMD_SP_FWD_FILE, TMCMD_SP_REV_FILE}
        passed == ItemsBetween(d0.image, d0.pos, d.pos)
        code == MotionInterruptCode(d)
        nSkipped == IF fFiles THEN MarksIn(passed)
                    ELSE Len(passed) - MarksIn(passed)
    IN  /\ d.image = d0.image
        /\ IF fReverse THEN d.pos <= d0.pos ELSE d.pos >= d0.pos
        /\ HIBYTE(d.regs[TMMCR0]) = n - nSkipped
        /\ LOBYTE(d.regs[TMMCR0]) = LOBYTE(d0.regs[TMMCR0]) - 1
        /\ code = TMIC_DONE <=> HIBYTE(d.regs[TMMCR0]) = 0
        /\ code \in {TMIC_DONE, TMIC_TAPE_MARK, TMIC_BAD_TAPE,
                     IF fReverse THEN TMIC_BOT ELSE TMIC_EOT}
        /\ code = TMIC_TAPE_MARK =>
             /\ ~fFiles /\ passed # <<>>
             /\ d0.image[IF fReverse THEN d.pos + 1 ELSE d.pos] = 0
        /\ code = TMIC_EOT => IsEOT(d)
        /\ code = TMIC_BOT => IsBOT(d)
        /\ code = TMIC_BAD_TAPE => d.pos = d0.pos

\* SPACE FORWARD RECORD with count 4 over two records, a tape mark and a
\* record has stopped just past the tape mark with two skips left
SpaceLeavesRemainderSeen ==
  /\ SpaceAccepted /\ last.fn = TMCMD_SP_FWD_REC
  /\ last.before.image = <<4, 5, 0, 5>> /\ last.before.pos = 0
  /\ HIBYTE(last.before.regs[TMMCR0]) = 4
  /\ unit["A"].pos = 3
  /\ HIBYTE(unit["A"].regs[TMMCR0]) = 2
  /\ MotionInterruptCode(unit["A"]) = TMIC_TAPE_MARK

\* a motion command for slave 1, 2 or 3 has reached the tape unit
OtherSlaveCommand ==
  /\ last.kind = "motion" /\ last.handled
  /\ last.reg \in {TMMCR0 + 1, TMMCR0 + 2, TMMCR0 + 3}

\* where in a trace the image file was called
ImageCalls(t) ==
  {i \in 1..Len(t) :
     t[i].op \in {"ReadForwardRecord", "SpaceRecord", "WriteRecord", "WriteMark",
                  "Truncate"}}

\* C19: a motion command written to TMMCRs, s in 1..3, clears GO in TMMCRs
\* and sets the unit field of TMMIR to s; SENSE writes the TM78 and TU78
\* marker to TMDT and 0 to TMUS and to TMSN and gives DONE, any other function
\* gives NOT AVAILABLE; the image of the transport of slave 0, its head
\* position, its attached and online state and TMMCR0 stay as they were.
OtherSlavesAbsent ==
  OtherSlaveCommand =>
    LET d0 == last.before
        d == unit["A"]
        t == LastTrace
        s == last.reg - TMMCR0
    IN  /\ d.regs[last.reg] % 2 = 0
        /\ (d.regs[TMMIR] \div 256) % 4 = s
        /\ WritesOf(t, TMMIR) # {}
        /\ IF last.fn = TMCMD_SENSE
             THEN /\ MotionInterruptCode(d) = TMIC_DONE
                  /\ WritesOf(t, TMDT) # {} /\ WritesOf(t, TMUS) # {}
                  /\ WritesOf(t, TMSN) # {}
                  /\ d.regs[TMDT] = BitOr(TMDT_TM78, TMDT_TU78)
                  /\ d.regs[TMUS] = 0
                  /\ d.regs[TMSN] = 0
             ELSE MotionInterruptCode(d) = TMIC_NOT_AVAIL
        /\ d.image = d0.image /\ d.pos = d0.pos
        /\ ImageCalls(t) = {}
        /\ d.attached = d0.attached /\ d.m_fOnline = d0.m_fOnline
        /\ d.regs[TMMCR0] = d0.regs[TMMCR0]
        /\ WritesOf(t, TMMCR0) = {}

\* a SENSE for slave 2 has cleared the unit status that a SENSE for slave 0
\* had left in TMUS
OtherSlavesAbsentSeen ==
  /\ OtherSlaveCommand /\ last.fn = TMCMD_SENSE /\ last.reg = TMMCR0 + 2
  /\ last.before.regs[TMUS] # 0
  /\ last.before.regs[last.reg] % 2 = 1
  /\ unit["A"].regs[TMUS] = 0 /\ unit["A"].regs[TMSN] = 0
  /\ unit["A"].regs[last.reg] % 2 = 0
  /\ unit["A"].regs[TMMIR] = MK_TMMIR(TMIC_DONE, 2, 0)

\* a motion command for slave 0 has reached the tape unit
Slave0Command == last.kind = "motion" /\ last.handled /\ last.reg = TMMCR0

\* the motion functions that write to the tape
WritingFunctions ==
  {TMCMD_WTM_PE, TMCMD_WTM_GCR, TMCMD_ERG_PE, TMCMD_ERG_GCR, TMCMD_DSE}

\* the motion functions whose handlers begin with CheckOnline or CheckWritable
CheckedFunctions ==
  WritingFunctions \cup
  {TMCMD_REWIND, TMCMD_UNLOAD, TMCMD_SP_FWD_REC, TMCMD_SP_REV_REC,
   TMCMD_SP_FWD_FILE, TMCMD_SP_REV_FILE}

\* the command has cleared GO in TMMCR0 and has left the image, the head and
\* the attachment as they were
RefusedUntouched ==
  /\ unit["A"].regs[TMMCR0] % 2 = 0
  /\ unit["A"].image = last.before.image
  /\ unit["A"].pos = last.before.pos
  /\ unit["A"].attached = last.before.attached
  /\ ImageCalls(LastTrace) = {}

\* C20 as stated: every motion command for slave 0 of a transport that is
\* offline or not attached clears GO, reports OFFLINE and performs no image
\* operation; a writing one for an online, read only transport clears GO,
\* reports FILE PROTECT and performs no image operation.
EveryMotionChecksOnline ==
  Slave0Command =>
    /\ ~IsOnline(last.before) =>
         /\ RefusedUntouched
         /\ MotionInterruptCode(unit["A"]) = TMIC_OFFLINE
    /\ (IsOnline(last.before) /\ IsReadOnly(last.before)
          /\ last.fn \in WritingFunctions) =>
         /\ RefusedUntouched
         /\ MotionInterruptCode(unit["A"]) = TMIC_FILE_PROTECT

\* C20: a REWIND, UNLOAD, SPACE, WRITE MARK, ERASE GAP or DATA SECURITY ERASE
\* for slave 0 of a transport that is offline or not attached clears GO in
\* TMMCR0, reports OFFLINE and performs no image operation; SENSE reports DONE
\* and a function the formatter does not know TM FAULT A whether the
\* transport is online or not, with GO cleared and no image operation; a
\* WRITE MARK, ERASE GAP or DATA SECURITY ERASE for an online, read only
\* transport clears GO, reports FILE PROTECT and performs no image operation.
MotionChecksOnline ==
  Slave0Command =>
    /\ ~IsOnline(last.before) =>
         /\ RefusedUntouched
         /\ MotionInterruptCode(unit["A"]) =
              IF last.fn \in CheckedFunctions THEN TMIC_OFFLINE
              ELSE IF last.fn = TMCMD_SENSE THEN TMIC_DONE
              ELSE TMIC_TM_FAULT_A
    /\ last.fn \notin CheckedFunctions =>
         /\ RefusedUntouched
         /\ MotionInterruptCode(unit["A"]) =
              IF last.fn = TMCMD_SENSE THEN TMIC_DONE ELSE TMIC_TM_FAULT_A
    /\ (IsOnline(last.before) /\ IsReadOnly(last.before)
          /\ last.fn \in WritingFunctions) =>
         /\ RefusedUntouched
         /\ MotionInterruptCode(unit["A"]) = TMIC_FILE_PROTECT

\* a WRITE MARK with GO set has been refused by a transport that is attached
\* and writable but offline
MotionChecksOnlineSeen ==
  /\ Slave0Command /\ last.fn = TMCMD_WTM_PE
  /\ last.before.attached /\ ~IsOnline(last.before) /\ ~IsReadOnly(last.before)
  /\ last.before.regs[TMMCR0] % 2 = 1
  /\ RefusedUntouched
  /\ MotionInterruptCode(unit["A"]) = TMIC_OFFLINE

\* an ERASE GAP has been refused by a transport that is online and read only
\* and has records ahead of the head
MotionProtectSeen ==
  /\ Slave0Command /\ last.fn = TMCMD_ERG_PE
  /\ IsOnline(last.before) /\ IsReadOnly(last.before)
  /\ last.before.pos < Len(last.before.image)
  /\ RefusedUntouched
  /\ MotionInterruptCode(unit["A"]) = TMIC_FILE_PROTECT

\* a data transfer command has reached the tape unit with a TMTCR setup the
\* formatter does not implement
SetupRefused ==
  /\ last.kind = "transfer" /\ last.handled
  /\ ~SetupAccepted(last.before.regs[TMTCR])

\* C21: a data transfer command whose TMTCR names a slave other than 0, a
\* format that is neither 10 compatible nor 10 core dump, a skip count other
\* than 0 or a record count above 1 sets TMDIR to TM FAULT A and makes an
\* empty transfer with the exception flag; it calls no image operation, sends
\* and takes no halfword of data and leaves the image, the head and the
\* online state as they were, whatever the function and whether the transport
\* is online, offline, read only or not attached.
RefusedSetupFaults ==
  SetupRefused =>
    LET d0 == last.before
        d == unit["A"]
        t == LastTrace
    IN  /\ DataInterruptCode(d) = TMIC_TM_FAULT_A
        /\ Cardinality(WritesOf(t, TMDIR)) = 1
        /\ DataAccesses(t) = <<Ev("SEND", 0, 1), Ev("FIFOWR", 1, 0)>>
        /\ ImageCalls(t) = {}
        /\ d.image = d0.image /\ d.pos = d0.pos
        /\ d.attached = d0.attached /\ d.m_fOnline = d0.m_fOnline
        /\ ~d.crashed

\* a WRITE with a record count of 2 has been refused by a transport that is
\* online and writable
RefusedSetupFaultsSeen ==
  /\ SetupRefused /\ last.fn = TMCMD_WRT_PE
  /\ (last.before.regs[TMTCR] \div 4) % 64 = 2
  /\ IsOnline(last.before) /\ ~IsReadOnly(last.before)
  /\ DataInterruptCode(unit["A"]) = TMIC_TM_FAULT_A
  /\ DataAccesses(LastTrace) = <<Ev("SEND", 0, 1), Ev("FIFOWR", 1, 0)>>
  /\ unit["A"].image = last.before.image

\* a READ or a WRITE has reached a disk unit that is online
DiskTransfer ==
  /\ last.kind = "disk" /\ last.handled
  /\ last.fn \in {RPCMD_READ, RPCMD_WRITE}

\* the desired address registers name a sector of the pack in its format
AddressInRange(d) ==
  /\ d.regs[RPDC] < RP06_Cylinders
  /\ HIBYTE(d.regs[RPDA]) < RP06_Heads
  /\ LOBYTE(d.regs[RPDA]) < (IF d.m_f18Bit THEN RP06_Sectors18 ELSE RP06_Sectors16)

\* where in a trace the image file was asked for a sector, and where it failed
SectorCalls(t) == {i \in 1..Len(t) : t[i].op \in {"ReadSector", "WriteSector"}}

SectorFailures(t) == {i \in SectorCalls(t) : t[i].b = 1}

\* C22: a disk READ or WRITE whose desired address is out of range for the
\* geometry of the pack in its format, or whose image read or write fails,
\* leaves the drive offline with MOL and VV clear in RPDS; with an address
\* out of range a READ writes nothing to the data FIFO, a WRITE reads nothing
\* from it, and the image is neither called nor changed.
DiskErrorsGoOffline ==
  DiskTransfer =>
    LET d0 == last.before
        d == unit["B"]
        t == LastTrace
    IN  /\ (~AddressInRange(d0) \/ SectorFailures(t) # {}) =>
             /\ ~d.m_fOnline /\ ~IsOnline(d)
             /\ BitAnd(d.regs[RPDS], RPDS_MOL) = 0
             /\ BitAnd(d.regs[RPDS], RPDS_VV) = 0
             /\ ~d.crashed
        /\ ~AddressInRange(d0) =>
             /\ BridgeData(t) = {}
             /\ SectorCalls(t) = {}
             /\ d.image = d0.image

\* a WRITE to sector 21 of a track of an 18 bit pack that the host had
\* acknowledged has taken the drive offline and has cleared MOL and VV
DiskErrorsGoOfflineSeen ==
  /\ DiskTransfer /\ last.fn = RPCMD_WRITE
  /\ last.before.m_f18Bit /\ LOBYTE(last.before.regs[RPDA]) = 21
  /\ BitAnd(last.before.regs[RPDS], RPDS_MOL) # 0
  /\ BitAnd(last.before.regs[RPDS], RPDS_VV) # 0
  /\ ~IsOnline(unit["B"])
  /\ BitAnd(unit["B"].regs[RPDS], BitOr(RPDS_MOL, RPDS_VV)) = 0
  /\ BridgeData(LastTrace) = {}
  /\ unit["B"].image = last.before.image

\* the data FIFO has timed out during the tape transfer that ran last: the
\* count was sent to the bridge and no word went through the FIFO
TapeFifoTimeout ==
  /\ last.kind = "transfer" /\ last.handled
  /\ \E i \in 1..Len(LastTrace) : LastTrace[i].op = "SEND" /\ LastTrace[i].a > 0
  /\ \A i \in 1..Len(LastTrace) : LastTrace[i].op \notin {"FIFORD", "FIFOWR"}

\* the data FIFO has timed out during the disk write that ran last: the
\* address was in range and no word came out of the FIFO
DiskFifoTimeout ==
  /\ last.kind = "disk" /\ last.handled
  /\ last.fn \in {RPCMD_WRITE, RPCMD_WHEADER}
  /\ AddressInRange(last.before)
  /\ \A i \in 1..Len(LastTrace) : LastTrace[i].op # "FIFORD"

\* C23: a timeout of the data FIFO inside ReadData or WriteData is a failed
\* transfer: a disk is offline afterwards and its image is as it was; a tape
\* has UNREADABLE, not DONE, in TMDIR and no record was added to its image.
FifoTimeoutReported ==
  /\ DiskFifoTimeout =>
       /\ ~IsOnline(unit["B"])
       /\ unit["B"].image = last.before.image
       /\ SectorCalls(LastTrace) = {}
  /\ TapeFifoTimeout =>
       /\ DataInterruptCode(unit["A"]) = TMIC_UNREADABLE
       /\ unit["A"].image = last.before.image
       /\ ImageWrites(LastTrace) = {}

\* where in a trace a call of the tape image file failed: a read or a spacing
\* call that returned an error other than tape mark and end of tape, a write,
\* a tape mark write or a truncate that reported failure
ImageFailures(t) ==
  {i \in 1..Len(t) :
     \/ t[i].op \in {"ReadForwardRecord", "SpaceRecord"} /\ t[i].b = 3
     \/ t[i].op \in {"WriteRecord", "WriteMark", "Truncate"} /\ t[i].b = 1}

\* the interrupt codes that tell the host of a failure of the tape
FailureCodes == {TMIC_BAD_TAPE, TMIC_UNREADABLE, TMIC_EOT, TMIC_TAPE_MARK}

\* C24: a tape command during which a call of the image file failed reports
\* BAD TAPE, UNREADABLE, EOT or TAPE MARK, never DONE: in TMMIR for a motion
\* command, in TMDIR for a data transfer, and a read that failed ends with an
\* empty transfer that carries the exception flag.
ImageFailuresReported ==
  (last.b = "A" /\ last.handled /\ ImageFailures(LastTrace) # {}) =>
    /\ last.kind = "motion" => MotionInterruptCode(unit["A"]) \in FailureCodes
    /\ last.kind = "transfer" => DataInterruptCode(unit["A"]) \in FailureCodes
    /\ (last.kind = "transfer" /\ last.fn \in {TMCMD_RD_FWD, TMCMD_RD_REV}) =>
         DataAccesses(LastTrace) = <<Ev("SEND", 0, 1), Ev("FIFOWR", 1, 0)>>

\* C25: on an online, writable disk a sector that was written and is then
\* read comes back as the words the host sent, cut to 16 bits (the high half
\* zero) in the 16 bit encoding and to 18 bits in the 18 bit encoding; the 18
\* bit encoding stores each pair as the left and the right half of one 36 bit
\* word; a write leaves every other sector of the image as it was.
SectorRoundTrip ==
  /\ (sec.op = "read" /\ sec.written[sec.lLBA + 1] # <<>>) =>
        /\ Len(sec.fifoOut) = SectorLength
        /\ \A i \in 1..SectorLength :
             sec.fifoOut[i] = IF sec.f18Bit
                                THEN sec.written[sec.lLBA + 1][i] % 262144
                                ELSE sec.written[sec.lLBA + 1][i] % 65536
  /\ sec.op = "write" =>
        /\ \A l \in 1..DiskImageSectors :
             l # sec.lLBA + 1 => sec.image[l] = sec.before[l]
        /\ sec.f18Bit =>
             \A i \in 1..SectorPairs :
               /\ sec.image[sec.lLBA + 1][i].lh = sec.fifoIn[2 * i - 1] % 262144
               /\ sec.image[sec.lLBA + 1][i].rh = sec.fifoIn[2 * i] % 262144

\* a sector written with words that use bits 16 and 17 is read back, another
\* sector having been written in between
SectorRoundTripSeen ==
  /\ sec.op = "read"
  /\ sec.count = MaxSectorOps
  /\ sec.written[sec.lLBA + 1] # <<>>
  /\ \E l \in 1..DiskImageSectors : l # sec.lLBA + 1 /\ sec.written[l] # <<>>
  /\ \E i \in 1..SectorLength : sec.written[sec.lLBA + 1][i] >= 65536
  /\ sec.fifoOut[1] # sec.fifoOut[2]

\* the bits of RPDS as the software wrote them last
DiskMOL(d) == BitAnd(d.regs[RPDS], RPDS_MOL) # 0

DiskVV(d) == BitAnd(d.regs[RPDS], RPDS_VV) # 0

\* the disk bus's unit 0 is connected
DiskExists == unit["B"].exists

\* C26: whatever the operator and the host do, MOL of a disk's RPDS, as the
\* software wrote it last, is set exactly when the drive is online, and an
\* online drive has an image attached; a drive that is not online has neither
\* MOL nor VV; the step that brings a drive online sets MOL and leaves VV
\* clear, and every step that takes it offline clears both.
MolTracksOnline ==
  /\ [](DiskExists =>
          /\ DiskMOL(unit["B"]) <=> IsOnline(unit["B"])
          /\ IsOnline(unit["B"]) => IsAttached(unit["B"])
          /\ ~IsOnline(unit["B"]) => ~DiskVV(unit["B"]))
  /\ [][(DiskExists /\ DiskExists') =>
          /\ (~IsOnline(unit["B"]) /\ IsOnline(unit["B"]')) =>
                DiskMOL(unit["B"]') /\ ~DiskVV(unit["B"]')
          /\ (IsOnline(unit["B"]) /\ ~IsOnline(unit["B"]')) =>
                ~DiskMOL(unit["B"]') /\ ~DiskVV(unit["B"]')]_vars

\* a transfer has failed on a pack the host had acknowledged, and the drive
\* is attached, offline and without MOL and VV
MolTracksOnlineSeen ==
  /\ last.b = "B" /\ last.handled
  /\ DiskMOL(last.before) /\ DiskVV(last.before)
  /\ IsAttached(unit["B"]) /\ ~IsOnline(unit["B"])
  /\ ~DiskMOL(unit["B"]) /\ ~DiskVV(unit["B"])

\* the operator has brought a drive online that was attached: the one write
\* of the command sets MOL in RPDS
SpunUpSeen ==
  /\ last = NoCommand /\ steps = MaxSteps
  /\ DiskExists /\ IsOnline(unit["B"]) /\ DiskMOL(unit["B"]) /\ ~DiskVV(unit["B"])
  /\ Len(unit["B"].trace) = 1
  /\ unit["B"].trace[1].op = "MBR" /\ unit["B"].trace[1].a = RPDS

\* C27: while a disk is attached, the geometry word the bridge was given last
\* for its unit is (cylinders - 1) << 16 | (heads - 1) << 8 | (sectors - 1),
\* with the sectors of a track of the drive's present encoding: 20 on an RP06
\* with an 18 bit pack and 22 with a 16 bit pack.
GeometryAdvertised ==
  (DiskExists /\ IsAttached(unit["B"])) =>
     unit["B"].alGeometry =
       (814 * 65536) + (18 * 256) + (IF unit["B"].m_f18Bit THEN 19 ELSE 21)

\* the operator has attached a pack of the other encoding to a drive that
\* was attached, and the bridge has been told of the sectors of both
GeometryAdvertisedSeen ==
  /\ last = NoCommand /\ steps = MaxSteps
  /\ DiskExists /\ IsAttached(unit["B"])
  /\ \E i, j \in 1..Len(unit["B"].trace) :
       /\ i < j
       /\ unit["B"].trace[i].op = "SetGeometry"
       /\ unit["B"].trace[j].op = "SetGeometry"
       /\ unit["B"].trace[i].a # unit["B"].trace[j].a
       /\ unit["B"].trace[j].a = GetSectors(unit["B"])

\* C28: after an ATTACH of a disk with either /BITS value, the first one of
\* a drive just connected included, and after every later change of the
\* encoding, the 18 bit format bit of RPOF equals the drive's 18 bit flag.
FormatBitTracksEncoding ==
  (DiskExists /\ IsAttached(unit["B"])) =>
     ((BitAnd(unit["B"].regs[RPOF], RPOF_FMT22) # 0) <=> unit["B"].m_f18Bit)

\* the host's last command was an UNLOAD for slave 0 of a transport that was
\* online
UnloadedOnline ==
  /\ last.b = "A" /\ last.kind = "motion" /\ last.reg = TMMCR0
  /\ last.fn = TMCMD_UNLOAD
  /\ last.before.exists /\ IsOnline(last.before)

\* the places of the trace where GO of TMMCR0 is written clear, where TMMIR is
\* written with DONE, where the transport goes offline, where the image closes
UnloadInOrder(t) ==
  LET go == {i \in 1..Len(t) :
               t[i].op = "MBR" /\ t[i].a = TMMCR0 /\ t[i].b % 2 = 0}
      done == {i \in 1..Len(t) :
                 /\ t[i].op = "MBR" /\ t[i].a = TMMIR
                 /\ t[i].b = MK_TMMIR(TMIC_DONE, 0, TMFC_NONE)}
      off == {i \in 1..Len(t) : t[i].op = "GoOffline"}
      close == {i \in 1..Len(t) : t[i].op = "Close"}
  IN  /\ Cardinality(off) = 1 /\ Cardinality(close) = 1 /\ Cardinality(done) = 1
      /\ go # {}
      /\ \A g \in go, m \in done, o \in off, c \in close : g < m /\ m < o /\ o < c

\* C29: an UNLOAD for slave 0 of an online transport clears GO, then reports
\* DONE in TMMIR, then takes the transport offline, then detaches the image;
\* from then on no command of the host attaches an image or brings the
\* transport online: only a command of the operator does.
UnloadTakesOffline ==
  /\ [](UnloadedOnline =>
          /\ UnloadInOrder(unit["A"].trace)
          /\ unit["A"].regs[TMMCR0] % 2 = 0
          /\ ~IsOnline(unit["A"]) /\ ~IsAttached(unit["A"]))
  /\ [][(unit["A"].exists /\ ~IsAttached(unit["A"]) /\ last' # NoCommand) =>
          (~IsAttached(unit["A"]') /\ ~IsOnline(unit["A"]'))]_vars

\* the host has unloaded a transport that was online and not at the start of
\* its tape
UnloadTakesOfflineSeen ==
  /\ UnloadedOnline
  /\ ~IsOnline(unit["A"]) /\ ~IsAttached(unit["A"])
  /\ unit["A"].trace # <<>>

\* a command of the host has found slave 0 without an image and left it so
HostAfterUnloadSeen ==
  /\ last.b = "A" /\ last.kind \in {"motion", "transfer"}
  /\ last.before.exists /\ ~IsAttached(last.before)
  /\ ~IsAttached(unit["A"]) /\ unit["A"].trace # <<>>

\* C30: in either format (groups of g = 4 or 5 bytes), in either direction
\* and for every record length n from 1 to the longest, Fiddle8to18 comes to
\* an end inside its buffers, reads no byte of abIn at an index at or beyond
\* n rounded up to a multiple of g, and returns 2 * ceil(n / g) halfwords.
FiddleStaysInside ==
  fpc \in {"fiddled", "back"} =>
    LET g == IF tFormat = TMAM_10_CORE_DUMP THEN 5 ELSE 4
        groups == (tLength + g - 1) \div g
    IN  /\ ~alOut.fault
        /\ alOut.top <= groups * g
        /\ Len(alOut.hw) = 2 * groups

\* the host's last command was a WRITE that DoTransferCommand accepted, for
\* a transport that was online and writable
WriteAccepted ==
  /\ last.kind = "transfer" /\ last.handled
  /\ last.fn \in {TMCMD_WRT_PE, TMCMD_WRT_GCR}
  /\ SetupAccepted(last.before.regs[TMTCR])
  /\ IsOnline(last.before) /\ ~IsReadOnly(last.before)

\* C31: for every WRITE that DoTransferCommand accepts, in either format and
\* with any byte count, the count of halfwords DoWrite hands to ReadData and
\* to Fiddle18to8 is even and above zero, and neither of their assertions
\* fails.
WriteCountEven ==
  WriteAccepted =>
    /\ ~unit["A"].crashed
    /\ \A i \in 1..Len(LastTrace) :
         LastTrace[i].op \in {"SEND", "FIFORD"} =>
           LastTrace[i].a > 0 /\ LastTrace[i].a % 2 = 0

\* the transport after a READ FORWARD with the registers and the image the
\* host's last command found, the world answering as env says
ForwardOutcome(env) ==
  CMBADoCommand(TRUE, [last.before EXCEPT !.regs[TMDCR] = TMCMD_RD_FWD],
                MkDescriptor(0, TMDCR, TMCMD_RD_FWD), env)

\* a READ REVERSE of an online transport that is not at the start of its tape
\* reads the image, moves the tape and writes the registers as a READ FORWARD
\* does, and hands as many halfwords to the bridge
ReverseReadsForward ==
  (ReadAccepted /\ last.fn = TMCMD_RD_REV /\ ~IsBOT(last.before)) =>
    \E env \in TransferEnvs :
      [unit["A"] EXCEPT !.regs[TMDCR] = TMCMD_RD_FWD] = ForwardOutcome(env)

ReverseReadsForwardSeen ==
  /\ ReadAccepted /\ last.fn = TMCMD_RD_REV /\ ~IsBOT(last.before)
  /\ RecordRead(LastTrace) > 0
  /\ unit["A"].pos = last.before.pos + 1

\* C32: a READ REVERSE of an online transport that is not at the start of its
\* tape reads one record forward as a READ FORWARD does; the halfwords the
\* bridge is handed are those of the READ FORWARD, in the opposite order, and
\* nothing else differs.
ReverseReadSameHalfwords ==
  (fpc = "fiddled" /\ tReverse) =>
    LET fwd == Fiddle8to18(tFormat, abIn, ByteBufferLen, HalfwordBufferLen,
                           tLength, FALSE)
    IN  /\ alOut.fault = fwd.fault
        /\ ~alOut.fault =>
             /\ Len(alOut.hw) = Len(fwd.hw)
             /\ \A j \in 1..Len(alOut.hw) :
                  alOut.hw[j] = fwd.hw[Len(fwd.hw) + 1 - j]

\* the accesses of one kind among the window accesses of the call
Accesses(op) == SelectSeq(xfer.window, LAMBDA e : e.op = op)

\* the count WriteData or EmptyTransfer has to announce
Announced ==
  Ev("SEND", xfer.clData + (IF xfer.fException THEN FORCE_EXCEPTION ELSE 0), 0)

EmptyTransferWindow ==
  xfer.fn = "EmptyTransfer" =>
    xfer.window = <<Announced, Ev("FIFOWR", 0, 0)>>

DiskWriteDataSeen ==
  /\ xfer.fn = "WriteData" /\ ~xfer.isTape /\ xfer.ret = "true"
  /\ xfer.clData = MaxWords

\* the reads of lDataFIFO the call has made, and the valid words among them
FIFOReads == Accesses("FIFORD")
ValidReads == SelectSeq(FIFOReads, LAMBDA e : e.b = 1)

ReadDataBounded ==
  xfer.fn = "ReadData" =>
    /\ Len(FIFOReads) <= xfer.clData * (DATA_TIMEOUT + 1)
    /\ xfer.i = Len(ValidReads)
    /\ xfer.plData =
         [j \in 1..xfer.clData |->
            IF j <= xfer.i THEN MASK18(ValidReads[j].a) ELSE -1]
    /\ xfer.ret = "true" => xfer.i = xfer.clData /\ ~xfer.offline
    /\ (xfer.ret = "false" /\ ~xfer.offline) =>
         /\ xfer.i < xfer.clData
         /\ Len(FIFOReads) > DATA_TIMEOUT
         /\ \A k \in (Len(FIFOReads) - DATA_TIMEOUT)..Len(FIFOReads) :
              FIFOReads[k].b = 0
    /\ xfer.offline =>
         /\ xfer.pc = "done" /\ xfer.ret = "false"
         /\ xfer.window = <<>>
         /\ xfer.plData = Untouched(xfer.clData)

\* C34: ReadData(N) ends, after at most N * (DATA_TIMEOUT + 1) reads of the
\* data FIFO; when it returns true it has stored N words, each masked to 18
\* bits; when a word stays invalid for DATA_TIMEOUT + 1 reads it returns
\* false and has stored nothing at or after the index of that word; on an
\* offline bridge it returns false without an access of the window or a store
\* into the buffer.
ReadDataEnds ==
  /\ []ReadDataBounded
  /\ (xfer.fn = "ReadData" /\ xfer.pc = "read") ~> (xfer.pc = "done")

\* the second word of two never arrives; the first had bits above bit 17
ReadDataEndsSeen ==
  /\ xfer.fn = "ReadData" /\ xfer.ret = "false" /\ ~xfer.offline
  /\ xfer.clData = MaxWords /\ xfer.i = 1
  /\ ValidReads[1].a > xfer.plData[1]
  /\ Len(FIFOReads) = MaxWords * (DATA_TIMEOUT + 1) - DATA_TIMEOUT

\* the step is SET UNIT /NOWRITE (fReadOnly) or /WRITE on unit 0 of bus b
SetUnitWrite(b, fReadOnly) ==
  /\ unit[b].exists
  /\ last' = NoCommand
  /\ unit' = [unit EXCEPT ![b] =
                UISetUnit(Fresh(unit[b]), IF fReadOnly THEN "no" ELSE "yes",
                          "absent")]

DiskWLK(d) == BitAnd(d.regs[RPDS], RPDS_WLK) # 0

\* C35: after SET UNIT /NOWRITE or /WRITE has called SetReadOnly(r), the
\* drive's IsReadOnly() is r and an attached disk's write lock bit in RPDS is
\* r, so that the host's writes are refused exactly when r.
SetReadOnlyTakesEffect ==
  [][\A b \in Buses, r \in BOOLEAN :
       SetUnitWrite(b, r) =>
         /\ IsReadOnly(unit'[b]) = r
         /\ (~unit'[b].isTape /\ IsAttached(unit'[b])) => DiskWLK(unit'[b]) = r]_vars

\* C36: the condition an operator command checked before it called LockUI
\* still holds when the command changes the drive inside the gate: REWIND and
\* DETACH act on a drive that is still attached, also when the host's UNLOAD
\* is served between the check and LockUI.
CheckedStillHolds ==
  mpc = "mutate" => UIAccepts(ucmd.op, unit[ucmd.b])

\* C37: the service thread of a bus leaves CommandLoop only when its exit flag
\* has been set: no word WaitCommand returns and no outcome of a dispatched
\* command ends the loop of a thread that was not asked to exit.
ServesUntilExit ==
  \A b \in Buses : tpc[b] = "end" => IsExitRequested(b)

\* the step is an ATTACH of unit 0 of bus b whose image file cannot be opened
AttachFails(b) ==
  /\ unit[b].exists
  /\ last' = NoCommand
  /\ unit' = [unit EXCEPT ![b] =
                UIAttach(Fresh(unit[b]), FALSE, FALSE, FALSE, TRUE, FALSE)]

\* C38: an ATTACH that fails because the new image cannot be opened leaves the
\* drive as it was: a drive that was attached is still attached, one that was
\* online is still online, and its registers are unchanged.
FailedAttachKeeps ==
  [][\A b \in Buses :
       AttachFails(b) =>
         /\ IsAttached(unit'[b]) = IsAttached(unit[b])
         /\ IsOnline(unit'[b]) = IsOnline(unit[b])
         /\ unit'[b].regs = unit[b].regs]_vars

\* the descriptors the bridge has placed in the command FIFO of bus b so far
Placed(b) == readLog[b] \o fifo[b]

IsPrefix(s, t) == Len(s) <= Len(t) /\ s = SubSeq(t, 1, Len(s))

\* what is dispatched is what was placed, in the order it was placed, and no
\* read of the FIFO takes a descriptor out of its turn
ServedInOrder ==
  /\ [](\A b \in Buses : IsPrefix(dispLog[b], Placed(b)))
  /\ [][\A b \in Buses : IsPrefix(Placed(b), Placed(b)')]_vars

\* a WaitCommand that starts with a descriptor in the FIFO returns it from its
\* first read
FirstReadTakes ==
  [][\A b \in Buses :
       (tpc[b] = "wait" /\ ~upeOffline[b] /\ fifo[b] # <<>> /\ tpc'[b] # tpc[b]) =>
         tpc'[b] = "enter" /\ cmd'[b] = Head(fifo[b])]_vars

\* C39: on a thread that runs on an online bridge, is not asked to exit and
\* gets no ERROR from WaitCommand, with an operator who does not hold the gate
\* for ever, every descriptor the bridge places in the command FIFO is
\* dispatched to DoCommand in the end, in the order of the FIFO; a descriptor
\* that arrives between WaitCommand's first read and its wait is read at the
\* latest by the first read of the next WaitCommand.
EveryDescriptorServed ==
  /\ ServedInOrder
  /\ FirstReadTakes
  /\ \A b \in Buses, k \in 1..MaxCmds :
       []<>(m_UIlock[b] # "ui") =>
         ((Len(Placed(b)) >= k) ~>
            (Len(dispLog[b]) >= k \/ exitReq[b] \/ tpc[b] = "end" \/ ~Alive))

\* a second descriptor arrived while WaitCommand was between its first read
\* and its wait, the first descriptor having been dispatched
EveryDescriptorServedSeen ==
  /\ tpc["A"] = "intr" /\ Len(fifo["A"]) = 1
  /\ Len(dispLog["A"]) = 1 /\ dispLog["A"][1] # fifo["A"][1]
  /\ ~exitReq["A"]

\* both descriptors of a bus were dispatched, in the order they were placed
BothServedSeen ==
  /\ Len(dispLog["A"]) = MaxCmds /\ dispLog["A"][1] # dispLog["A"][MaxCmds]
  /\ ~exitReq["A"]

\* C40: every motion command the tape unit handles, for any slave and any
\* function, whatever its outcome (done, offline, file protect, slave not
\* available, function not recognised, ...), writes TMMIR exactly once, after
\* every write to the TMMCRn of the command: GO is clear and the count field
\* has its final value when the host is interrupted.
MotionInterruptLast ==
  (last.kind = "motion" /\ last.handled) =>
    LET mir == WritesOf(LastTrace, TMMIR)
        mcr == WritesOf(LastTrace, last.reg)
    IN  /\ Cardinality(mir) = 1
        /\ mcr # {}
        /\ \A i \in mir, j \in mcr : j < i
        /\ \A i \in mir : unit[last.b].regs[last.reg] % 2 = 0
        /\ \A j \in mcr :
             (\A k \in mcr : k <= j) => LastTrace[j].b = unit[last.b].regs[last.reg]

\* a SPACE FORWARD has written the records left to the count field, cleared
\* GO and then interrupted with TAPE MARK
MotionInterruptLastSeen ==
  /\ Slave0Command /\ last.fn = TMCMD_SP_FWD_REC
  /\ Cardinality(WritesOf(LastTrace, TMMCR0)) = 2
  /\ MotionInterruptCode(unit[last.b]) = TMIC_TAPE_MARK
  /\ HIBYTE(unit[last.b].regs[TMMCR0]) > 0

\* a motion command for a slave that is not there was answered
OtherSlaveInterruptSeen ==
  /\ last.kind = "motion" /\ last.handled /\ last.reg # TMMCR0
  /\ MotionInterruptCode(unit[last.b]) = TMIC_NOT_AVAIL

-----------------------------------------------------------------------------
(* Properties of the threads (Spec, SpecFair) *)

\* the service thread of bus b is between m_UIlock.Enter and m_UIlock.Leave
InDoCommand(b) == tpc[b] \in {"docmd", "leave"}

\* the main thread is between LockUI and UnlockUI of bus b
InMutation(b) == mpc \in {"mutate", "unlock"} /\ ucmd.b = b

\* C1: on every bus, the service thread's DoCommand and an operator command
\* that changes a drive of the bus never overlap, and the operator command does
\* its changes holding the gate of that bus.
GateExcludes ==
  \A b \in Buses :
    /\ ~(InDoCommand(b) /\ InMutation(b))
    /\ InDoCommand(b) => m_UIlock[b] = "thread"
    /\ InMutation(b) => m_UIlock[b] = "ui"

\* the service thread waits at the gate with a command in hand while the
\* operator's ATTACH holds it
GateExcludesSeen ==
  /\ InMutation("A") /\ ucmd.op = "attach" /\ mpc = "mutate"
  /\ tpc["A"] = "enter" /\ IsCommandValid(cmd["A"])

\* C4: every valid descriptor WaitCommand has read from the command FIFO is
\* passed to CMBA::DoCommand once, in the order read, also when the exit was
\* requested meanwhile; nothing else is passed to CMBA::DoCommand.
DispatchedOnce ==
  \A b \in Buses :
    /\ \A i \in 1..Len(dispLog[b]) : IsCommandValid(dispLog[b][i])
    /\ readLog[b] = IF tpc[b] \in {"enter", "docmd"}
                      THEN Append(dispLog[b], cmd[b])
                      ELSE dispLog[b]

\* two descriptors were read and dispatched, the second after the exit was
\* requested
DispatchedOnceSeen ==
  /\ Len(dispLog["A"]) = 2 /\ readLog["A"] = dispLog["A"]
  /\ afterExit["A"].cmds = 1

\* C5: once the exit is requested the service thread ends, after at most one
\* return of WaitCommand and at most one dispatched command.
ExitTerminates ==
  /\ \A b \in Buses : exitReq[b] ~> (tpc[b] = "end" \/ ~Alive)
  /\ [](\A b \in Buses : afterExit[b].waits <= 1 /\ afterExit[b].cmds <= 1)

\* the thread has ended after a WaitCommand that returned a command, and the
\* dispatch of that command, both after the exit was requested
ExitTerminatesSeen ==
  /\ exitReq["A"] /\ tpc["A"] = "end"
  /\ afterExit["A"].waits = 1 /\ afterExit["A"].cmds = 1

\* the positions of the events named e in the shutdown log
ShutAt(e) == {i \in 1..Len(shutLog) : shutLog[i].e = e}

Before(S, T) == \A i \in S, j \in T : i < j

\* C6 as stated: the parser goes first, then every thread is joined, then
\* every bus is torn down, then the bridges, the log and the console go.
ShutdownAllJoinedFirst ==
  /\ Before(ShutAt("parser"), ShutAt("join"))
  /\ Before(ShutAt("join"), {i \in ShutAt("free") : shutLog[i].had})
  /\ Before(ShutAt("free"), ShutAt("upes"))
  /\ Before(ShutAt("upes"), ShutAt("log"))
  /\ Before(ShutAt("log"), ShutAt("console"))

\* the shutdown log of a complete shutdown
ShutdownBusByBus ==
  LET perBus[i \in 0..Len(m_buses)] ==
        IF i = 0 THEN <<>>
        ELSE perBus[i - 1] \o <<[e |-> "join", b |-> m_buses[i]],
                                [e |-> "free", b |-> m_buses[i]]>>
  IN  <<[e |-> "parser", b |-> "-"]>> \o perBus[Len(m_buses)]
        \o <<[e |-> "upes", b |-> "-"], [e |-> "log", b |-> "-"],
             [e |-> "console", b |-> "-"]>>

\* C6: the parser goes first; then the buses go one at a time in the order
\* of their creation, the thread of a bus joined before that bus is torn down
\* and before the next bus is touched; then the bridges, the log, the console.
ShutdownInOrder ==
  /\ Len(shutLog) <= Len(ShutdownBusByBus)
  /\ \A i \in 1..Len(shutLog) :
       [e |-> shutLog[i].e, b |-> shutLog[i].b] = ShutdownBusByBus[i]
  /\ mpc = "done" => Len(shutLog) = Len(ShutdownBusByBus)

\* a shutdown with two buses is complete; the first bus had a drive
ShutdownInOrderSeen ==
  /\ mpc = "done" /\ Len(m_buses) = 2
  /\ \E i \in ShutAt("free") : shutLog[i].had /\ shutLog[i].b = m_buses[1]

\* C7: when the teardown of a bus deletes its drives, the service thread of
\* the bus has ended, and it has been joined.
JoinedBeforeFreed ==
  /\ mpc = "units" => tpc[m_buses[it]] = "end"
  /\ \A i \in ShutAt("free") :
       /\ tpc[shutLog[i].b] = "end"
       /\ \E j \in ShutAt("join") : j < i /\ shutLog[j].b = shutLog[i].b

\* the drive of a bus whose thread had dispatched a command has been deleted
JoinedBeforeFreedSeen ==
  \E i \in ShutAt("free") :
    shutLog[i].had /\ shutLog[i].b = "A" /\ Len(dispLog["A"]) > 0

=============================================================================
